---- MODULE Spec2Model ----
(***************************************************************************)
(* Texas Hold'Em rules engine of llm_holdem.game: BettingManager,          *)
(* PotManager, TurnManager, BlindManager and the GameEngine hand           *)
(* lifecycle that composes them.                                           *)
(*                                                                         *)
(* Chip amounts are integers.  A raise amount is an optional integer: the  *)
(* empty sequence << >> stands for Python's None and <<n>> for n.          *)
(* A list that the code only tests for membership (valid actions, a pot's  *)
(* eligible_players, active seats) is a set here.  A player's hole cards   *)
(* are abstracted to "holds cards or not"; the strength the evaluator      *)
(* gives each hand is drawn when the board is first evaluated.  The action *)
(* logs (_actions_this_round, _all_hand_actions) are append-only records   *)
(* that no operation reads back; they are not part of the state here.      *)
(***************************************************************************)
EXTENDS Integers, Sequences, FiniteSets, TLC

\* ---------------------------------------------------------------- bounds
MaxHands ==
    2
MaxRank ==
    2
MaxContribution ==
    5
MaxLevel ==
    3
MaxPots ==
    2
MaxHandsPerLevel ==
    4
MaxCalls ==
    12
MaxRaise ==
    5
MaxSeed ==
    1
MaxDeckCalls ==
    5
MaxActions ==
    5

\* Tables the engine is constructed with: the chips of seats 0, 1, 2.
InitialStacks ==
    {<<1, 2, 3>>, <<2, 3, 3>>, <<0, 0, 3>>}

\* len(players)
NumSeats ==
    Len(CHOOSE t \in InitialStacks : TRUE)

Seats ==
    0 .. (NumSeats - 1)

\* Blind schedule handed to BlindManager(levels, hands_per_level).
Levels ==
    << <<1, 2>>, <<2, 4>> >>
HandsPerLevel ==
    1

\* Raise-to amounts a caller may supply (None, negative, small and large).
RaiseAmounts ==
    {<< >>} \cup {<<n>> : n \in (0 - 1) .. MaxRaise}

ActionTypes ==
    {"fold", "check", "call", "raise"}

\* ------------------------------------------------------------- utilities
Min(a, b) ==
    IF a <= b THEN a ELSE b

Max(a, b) ==
    IF a >= b THEN a ELSE b

RECURSIVE SumOver(_, _)
SumOver(f, S) ==
    IF S = {} THEN 0
    ELSE LET x == CHOOSE y \in S : TRUE
         IN  f[x] + SumOver(f, S \ {x})

RECURSIVE SortedSeq(_)
\* sorted(S): the elements of a finite set of integers, ascending.
SortedSeq(S) ==
    IF S = {} THEN << >>
    ELSE LET m == CHOOSE x \in S : \A y \in S : x <= y
         IN  <<m>> \o SortedSeq(S \ {m})

RECURSIVE SumSeqAmounts(_)
SumSeqAmounts(ps) ==
    IF ps = << >> THEN 0 ELSE Head(ps).amount + SumSeqAmounts(Tail(ps))

\* ------------------------------------------------------------ PlayerState
NewPlayer(c) ==
    [chips |-> c, current_bet |-> 0, is_folded |-> FALSE, is_all_in |-> FALSE,
     is_eliminated |-> FALSE, has_acted |-> FALSE, hole_cards |-> << >>]

Actionable(p) ==
    ~p.is_folded /\ ~p.is_all_in /\ ~p.is_eliminated

\* ---------------------------------------------------------- BettingManager
NewBetting ==
    [current_bet |-> 0, min_raise |-> 0, last_raiser |-> 0 - 1,
     players_acted |-> {}]

new_round(big_blind) ==
    [current_bet |-> big_blind, min_raise |-> big_blind, last_raiser |-> 0 - 1,
     players_acted |-> {}]

\* get_valid_actions with "chips >= amount to call" as the test for a raise.
get_valid_actions_ge(b, p) ==
    IF p.is_folded \/ p.is_all_in \/ p.is_eliminated THEN {}
    ELSE {"fold"}
         \cup (IF b.current_bet - p.current_bet <= 0 THEN {"check"} ELSE {"call"})
         \cup (IF p.chips >= b.current_bet - p.current_bet THEN {"raise"} ELSE {})

get_valid_actions(b, p) ==
    IF p.is_folded \/ p.is_all_in \/ p.is_eliminated THEN {}
    ELSE {"fold"}
         \cup (IF b.current_bet - p.current_bet <= 0 THEN {"check"} ELSE {"call"})
         \cup (IF p.chips > b.current_bet - p.current_bet THEN {"raise"} ELSE {})

get_call_amount(b, p) ==
    Min(Max(0, b.current_bet - p.current_bet), p.chips)

get_min_raise_to(b, p) ==
    b.current_bet + b.min_raise

get_max_raise_to(b, p) ==
    p.current_bet + p.chips

\* validate_action without the exception for an all-in below the minimum.
validate_action_strict(b, p, action_type, amount) ==
    LET valid_actions == get_valid_actions(b, p) IN
    IF valid_actions = {} THEN FALSE
    ELSE IF action_type \notin valid_actions THEN FALSE
    ELSE IF action_type = "raise" THEN
        IF amount = << >> THEN FALSE
        ELSE IF amount[1] < get_min_raise_to(b, p) THEN FALSE
        ELSE IF amount[1] > get_max_raise_to(b, p) THEN FALSE
        ELSE TRUE
    ELSE TRUE

\* validate_action: TRUE iff the code returns (True, "").
validate_action(b, p, action_type, amount) ==
    LET valid_actions == get_valid_actions(b, p) IN
    IF valid_actions = {} THEN FALSE
    ELSE IF action_type \notin valid_actions THEN FALSE
    ELSE IF action_type = "raise" THEN
        IF amount = << >> THEN FALSE
        ELSE IF amount[1] < get_min_raise_to(b, p)
                /\ amount[1] # get_max_raise_to(b, p) THEN FALSE
        ELSE IF amount[1] > get_max_raise_to(b, p) THEN FALSE
        ELSE TRUE
    ELSE TRUE

\* The raise branch with the increment set to the size of every raise.
RaiseBetting_any_size(b, seat, raise_to) ==
    [b EXCEPT !.min_raise = raise_to - b.current_bet,
              !.current_bet = raise_to,
              !.last_raiser = seat,
              !.players_acted = {}]

\* The raise branch without "self._players_acted = set()".
RaiseBetting_keep_acted(b, seat, raise_to) ==
    [b EXCEPT !.min_raise = IF raise_to - b.current_bet > b.min_raise
                            THEN raise_to - b.current_bet ELSE b.min_raise,
              !.current_bet = raise_to,
              !.last_raiser = seat]

\* The raise branch of BettingManager.apply_action on the manager's state.
RaiseBetting(b, seat, raise_to) ==
    [b EXCEPT !.min_raise = IF raise_to - b.current_bet > b.min_raise
                            THEN raise_to - b.current_bet ELSE b.min_raise,
              !.current_bet = raise_to,
              !.last_raiser = seat,
              !.players_acted = {}]

\* BettingManager.apply_action for an action that validate_action accepted:
\* the new player, the new manager state and the Action's amount.
betting_apply_action(b, p, seat, action_type, amount) ==
    LET call_amount == get_call_amount(b, p)
        additional  == IF action_type = "raise" THEN amount[1] - p.current_bet ELSE 0
        p1 == CASE action_type = "fold"  -> [p EXCEPT !.is_folded = TRUE]
                [] action_type = "check" -> p
                [] action_type = "call"  ->
                       [p EXCEPT !.chips = p.chips - call_amount,
                                 !.current_bet = p.current_bet + call_amount,
                                 !.is_all_in = (p.chips - call_amount = 0)
                                               \/ p.is_all_in]
                [] action_type = "raise" ->
                       [p EXCEPT !.chips = p.chips - additional,
                                 !.current_bet = amount[1],
                                 !.is_all_in = (p.chips - additional = 0)
                                               \/ p.is_all_in]
        b1 == IF action_type = "raise" THEN RaiseBetting(b, seat, amount[1]) ELSE b
        action_amount == CASE action_type = "call"  -> call_amount
                           [] action_type = "raise" -> additional
                           [] OTHER -> 0
    IN  [player |-> [p1 EXCEPT !.has_acted = TRUE],
         betting |-> [b1 EXCEPT !.players_acted = b1.players_acted \cup {seat}],
         amount |-> action_amount]

\* is_round_complete without the loop that compares the bets.
is_round_complete_acted_only(b, ps) ==
    LET active_players == {s \in Seats : Actionable(ps[s])} IN
    IF Cardinality(active_players) <= 1 THEN TRUE
    ELSE IF \E s \in active_players : s \notin b.players_acted THEN FALSE
    ELSE TRUE

is_round_complete(b, ps) ==
    LET active_players == {s \in Seats : Actionable(ps[s])} IN
    IF Cardinality(active_players) <= 1 THEN TRUE
    ELSE IF \E s \in active_players : s \notin b.players_acted THEN FALSE
    ELSE IF \E s \in active_players : ps[s].current_bet # b.current_bet THEN FALSE
    ELSE TRUE

count_active_players(ps) ==
    Cardinality({s \in Seats : ~ps[s].is_folded /\ ~ps[s].is_eliminated})

count_actionable_players(ps) ==
    Cardinality({s \in Seats : Actionable(ps[s])})

\* -------------------------------------------------------------- PotManager
NewPot ==
    [pots |-> << [amount |-> 0, eligible_players |-> {}] >>,
     player_contributions |-> [s \in Seats |-> 0]]

\* PotManager.total
PotTotal(pm) ==
    SumSeqAmounts(pm.pots)

\* A seat is a key of _player_contributions iff its entry is positive
\* (add_bet only ever adds positive amounts), so 0 stands for "absent".
add_bet(pm, seat_index, amount) ==
    IF amount <= 0 THEN pm
    ELSE [pots |-> [pm.pots EXCEPT
                      ![1] = [amount |-> pm.pots[1].amount + amount,
                              eligible_players |->
                                  pm.pots[1].eligible_players \cup {seat_index}]],
          player_contributions |->
              [pm.player_contributions EXCEPT ![seat_index] = @ + amount]]

\* One slice of calculate_side_pots: the pot between prev_level and level.
BandPot(contributions, active_players, prev_level, level) ==
    LET keys == {s \in Seats : contributions[s] > 0 /\ s \in active_players}
        player_contrib == [s \in Seats |->
                             Min(contributions[s] - prev_level, level - prev_level)]
        eligible == {s \in keys : player_contrib[s] > 0}
    IN  [amount |-> SumOver(player_contrib, eligible), eligible_players |-> eligible]

\* The pot above the highest all-in level.
RemainingPot(contributions, active_players, max_all_in) ==
    LET excess == [s \in Seats |-> contributions[s] - max_all_in]
        remaining_eligible == {s \in Seats : contributions[s] > 0
                                  /\ s \in active_players /\ excess[s] > 0}
    IN  [amount |-> SumOver(excess, remaining_eligible),
         eligible_players |-> remaining_eligible]

RECURSIVE BandPots(_, _, _, _)
\* The loop over all_in_levels: pots with a positive amount, in level order.
BandPots(contributions, active_players, prev_level, levels) ==
    IF levels = << >> THEN << >>
    ELSE LET pot == BandPot(contributions, active_players, prev_level, Head(levels))
             rest == BandPots(contributions, active_players, Head(levels), Tail(levels))
         IN  IF pot.amount > 0 THEN <<pot>> \o rest ELSE rest

\* The folded contributions added to the last pot instead of the first.
AddFolded_last(pots, folded_total) ==
    IF folded_total > 0 /\ pots # << >>
    THEN [pots EXCEPT ![Len(pots)].amount = @ + folded_total]
    ELSE pots

\* Where the contributions of seats that are not active end up.
AddFolded(pots, folded_total) ==
    IF folded_total > 0 /\ pots # << >>
    THEN [pots EXCEPT ![1].amount = @ + folded_total]
    ELSE pots

calculate_side_pots(pm, all_in_amounts, active_players) ==
    LET contributions == pm.player_contributions IN
    IF DOMAIN all_in_amounts = {} THEN
        [pm EXCEPT !.pots = << [amount |-> PotTotal(pm),
                                eligible_players |-> active_players] >>]
    ELSE IF \A s \in Seats : contributions[s] = 0 THEN pm
    ELSE
        LET all_in_levels == SortedSeq({all_in_amounts[s] : s \in DOMAIN all_in_amounts})
            max_all_in == all_in_levels[Len(all_in_levels)]
            band == BandPots(contributions, active_players, 0, all_in_levels)
            remaining == RemainingPot(contributions, active_players, max_all_in)
            pots == IF remaining.amount > 0 THEN band \o <<remaining>> ELSE band
            folded_total == SumOver(contributions, Seats \ active_players)
            pots2 == AddFolded(pots, folded_total)
        IN  [pm EXCEPT !.pots = IF pots2 # << >> THEN pots2
                                ELSE << [amount |-> 0, eligible_players |-> {}] >>]

\* PotPayout with "j <= remainder" as the test for the extra chip.
PotPayout_extra_le(pot, pot_winners, s) ==
    LET n == Len(pot_winners)
        share == pot.amount \div n
        remainder == pot.amount % n
        pay == [j \in 1 .. n |->
                  IF pot_winners[j] = s
                  THEN share + (IF j - 1 <= remainder THEN 1 ELSE 0) ELSE 0]
    IN  SumOver(pay, 1 .. n)

\* What one pot pays seat s when its winners are the sequence pot_winners.
PotPayout(pot, pot_winners, s) ==
    LET n == Len(pot_winners)
        share == pot.amount \div n
        remainder == pot.amount % n
        pay == [j \in 1 .. n |->
                  IF pot_winners[j] = s
                  THEN share + (IF j - 1 < remainder THEN 1 ELSE 0) ELSE 0]
    IN  SumOver(pay, 1 .. n)

\* distribute: the winnings map (0 for a seat that is not a key).
distribute(pm, winners_per_pot) ==
    [s \in Seats |->
        LET pay == [i \in 1 .. Len(pm.pots) |->
                      IF i > Len(winners_per_pot) THEN 0
                      ELSE IF winners_per_pot[i] = << >> THEN 0
                      ELSE PotPayout(pm.pots[i], winners_per_pot[i], s)]
        IN  SumOver(pay, 1 .. Len(pm.pots))]

\* distribute_simple that hands the winners the first pot only.
distribute_simple_first_pot(pm, winners) ==
    distribute(pm, [i \in 1 .. Len(pm.pots) |-> IF i = 1 THEN winners ELSE << >>])

distribute_simple(pm, winners) ==
    distribute(pm, [i \in 1 .. Len(pm.pots) |-> winners])

\* -------------------------------------------------------------- TurnManager
_get_active_seats(ps) ==
    {s \in Seats : ~ps[s].is_eliminated}

_next_active_seat(from_seat, active_seats) ==
    LET hits == {k \in 1 .. NumSeats : ((from_seat + k) % NumSeats) \in active_seats}
    IN  IF hits = {} THEN from_seat
        ELSE (from_seat + (CHOOSE k \in hits : \A j \in hits : k <= j)) % NumSeats

\* advance_dealer whose search starts at the dealer's own seat.
advance_dealer_from_dealer(dealer, ps) ==
    IF _get_active_seats(ps) = {} THEN dealer
    ELSE _next_active_seat((dealer + NumSeats - 1) % NumSeats, _get_active_seats(ps))

advance_dealer(dealer, ps) ==
    IF _get_active_seats(ps) = {} THEN dealer
    ELSE _next_active_seat(dealer, _get_active_seats(ps))

\* <<small_blind_seat, big_blind_seat>>
get_blind_positions(dealer, ps) ==
    LET active_seats == _get_active_seats(ps) IN
    IF Cardinality(active_seats) = 2
    THEN <<dealer, _next_active_seat(dealer, active_seats)>>
    ELSE LET sb_seat == _next_active_seat(dealer, active_seats)
         IN  <<sb_seat, _next_active_seat(sb_seat, active_seats)>>

_get_actionable_seats(ps) ==
    {s \in Seats : ~ps[s].is_folded /\ ~ps[s].is_all_in /\ ~ps[s].is_eliminated}

\* The seats the loop "for _ in range(num_seats): current = (current + 1) %
\* num_seats" visits from from_seat on, kept when they are in active_seats.
SeatsAfter(from_seat, active_seats) ==
    LET visited == [k \in 1 .. NumSeats |-> (from_seat + k) % NumSeats]
        IsActive(x) == x \in active_seats
    IN  SelectSeq(visited, IsActive)

\* get_preflop_order whose walk starts at the big blind itself.
get_preflop_order_bb_first(ps, bb_seat) ==
    LET active_seats == _get_actionable_seats(ps) IN
    IF active_seats = {} THEN << >>
    ELSE SeatsAfter((bb_seat + NumSeats - 1) % NumSeats, active_seats)

get_preflop_order(ps, bb_seat) ==
    LET active_seats == _get_actionable_seats(ps)
        order == SeatsAfter(bb_seat, active_seats)
    IN  IF active_seats = {} THEN << >>
        ELSE IF bb_seat \in active_seats
                /\ \A i \in 1 .. Len(order) : order[i] # bb_seat
             THEN Append(order, bb_seat)
             ELSE order

get_postflop_order(dealer, ps) ==
    LET active_seats == _get_actionable_seats(ps) IN
    IF active_seats = {} THEN << >>
    ELSE SeatsAfter(dealer, active_seats)

\* ------------------------------------------------------------- BlindManager
NewBlinds ==
    [levels |-> Levels, hands_per_level |-> HandsPerLevel,
     current_level |-> 0, hands_at_current_level |-> 0]

small_blind(bl) ==
    bl.levels[bl.current_level + 1][1]

big_blind(bl) ==
    bl.levels[bl.current_level + 1][2]

is_max_level(bl) ==
    bl.current_level >= Len(bl.levels) - 1

\* The value advance_hand returns: whether this call raises the level.
advance_hand_increased(bl) ==
    bl.hands_at_current_level + 1 >= bl.hands_per_level /\ ~is_max_level(bl)

\* advance_hand that keeps counting instead of resetting the counter.
advance_hand_no_reset(bl) ==
    IF advance_hand_increased(bl)
    THEN [bl EXCEPT !.current_level = @ + 1, !.hands_at_current_level = @ + 1]
    ELSE [bl EXCEPT !.hands_at_current_level = @ + 1]

advance_hand(bl) ==
    IF advance_hand_increased(bl)
    THEN [bl EXCEPT !.current_level = @ + 1, !.hands_at_current_level = 0]
    ELSE [bl EXCEPT !.hands_at_current_level = @ + 1]

\* How often advance_hand has been called.
hands_ended(bl) ==
    bl.current_level * bl.hands_per_level + bl.hands_at_current_level

\* The postings, in order: <<seat, amount>> for each positive blind.
get_blind_posting(bl, sb_seat, bb_seat, sb_stack, bb_stack) ==
    LET sb_amount == Min(small_blind(bl), sb_stack)
        bb_amount == Min(big_blind(bl), bb_stack)
    IN  (IF sb_amount > 0 THEN << <<sb_seat, sb_amount>> >> ELSE << >>)
        \o (IF bb_amount > 0 THEN << <<bb_seat, bb_amount>> >> ELSE << >>)

\* --------------------------------------------------------------------- Deck
\* A card is named by its index in Deck._cards after the shuffle; the shuffle
\* permutes 52 different cards, so two indices are equal exactly when the
\* cards are.  deal_to_players hands out one card at a time, round-robin,
\* from the cursor dealt_count on.
\* Deck.reset builds the 52 cards, one per suit and rank; a card is named by
\* its place 0 .. 51 in that order.
DeckSize ==
    52

OrderedCards ==
    [i \in 1 .. DeckSize |-> i - 1]

\* random.Random: a generator whose draws are a function of its state.  The
\* state after one draw, and the draw below n.
RandomNext(r) ==
    (r * 21 + 11) % 64

RandomBelow(r, n) ==
    (r \div 4) % n

\* A generator that is seeded from the system's entropy whatever the seed.
NewRandom_ignores_seed(seed, entropy) ==
    entropy

\* random.Random(seed) takes its state from the seed, and from the system's
\* entropy when the seed is None (<< >>).
NewRandom(seed, entropy) ==
    IF seed = << >> THEN entropy ELSE seed[1] % 64

\* Deck(seed): the ordered deck, nothing dealt.
NewDeck(seed, entropy) ==
    [cards |-> OrderedCards, dealt_count |-> 0, rng |-> NewRandom(seed, entropy)]

\* Deck.reset leaves the generator as it is.
reset_deck(d) ==
    [d EXCEPT !.cards = OrderedCards, !.dealt_count = 0]

remaining(d) ==
    Len(d.cards) - d.dealt_count

\* Random.shuffle(x): for i from the last place down to the second, swap
\* x[i] with x[j], j drawn below i.  Returns the list and the generator.
RECURSIVE RandomShuffle(_, _, _)
RandomShuffle(x, i, r) ==
    IF i < 2 THEN [x |-> x, rng |-> r]
    ELSE LET j == RandomBelow(r, i) + 1
         IN  RandomShuffle([x EXCEPT ![i] = x[j], ![j] = x[i]], i - 1, RandomNext(r))

\* Deck.shuffle shuffles the cards not dealt yet.
shuffle(d) ==
    LET rest == SubSeq(d.cards, d.dealt_count + 1, Len(d.cards))
        sh == RandomShuffle(rest, Len(rest), d.rng)
    IN  [d EXCEPT !.cards = SubSeq(d.cards, 1, d.dealt_count) \o sh.x,
                  !.rng = sh.rng]

\* deal whose capacity check lets a request for one card too many pass.
deal_one_too_many(d, count) ==
    IF count < 1 \/ count > remaining(d) + 1
    THEN [deck |-> d, cards |-> << >>, error |-> "ValueError"]
    ELSE [deck |-> [d EXCEPT !.dealt_count = @ + count],
          cards |-> SubSeq(d.cards, d.dealt_count + 1,
                           Min(d.dealt_count + count, Len(d.cards))),
          error |-> "none"]

\* Deck.deal: the deck after the call, the cards returned and the error raised.
deal(d, count) ==
    IF count < 1 \/ count > remaining(d)
    THEN [deck |-> d, cards |-> << >>, error |-> "ValueError"]
    ELSE [deck |-> [d EXCEPT !.dealt_count = @ + count],
          cards |-> SubSeq(d.cards, d.dealt_count + 1, d.dealt_count + count),
          error |-> "none"]

deal_one(d) ==
    deal(d, 1)

burn(d) ==
    deal_one(d)

\* deal_to_players that hands each player two consecutive cards but moves on
\* by one card only.
deal_to_players_overlapping(dealt_count, num_players) ==
    [i \in 1 .. num_players |-> <<dealt_count + (i - 1), dealt_count + i>>]

deal_to_players(dealt_count, num_players) ==
    [i \in 1 .. num_players |->
        <<dealt_count + (i - 1), dealt_count + num_players + (i - 1)>>]

\* ------------------------------------------------------- TournamentManager
\* Of TournamentStats the count of all-ins is kept; elimination_order holds
\* the seats of the standings recorded; result is << >> for None, else
\* <<standings>>, a standing being a seat and its finish position.
NewTournament ==
    [total_all_ins |-> 0, elimination_order |-> << >>, result |-> << >>]

Reversed(q) ==
    [i \in 1 .. Len(q) |-> q[Len(q) + 1 - i]]

\* _finalize listing the eliminated from the first out to the last out.
_finalize_first_out_first(winner, elimination_order) ==
    (IF winner # << >>
     THEN << [seat_index |-> winner[1], finish_position |-> 1] >>
     ELSE << >>)
    \o [i \in 1 .. Len(elimination_order) |->
          [seat_index |-> elimination_order[i],
           finish_position |-> 2 + (i - 1)]]

\* The standings _finalize builds: the winner, if there is one, then the
\* eliminated from the last out to the first out, numbered from 2.
_finalize(winner, elimination_order) ==
    (IF winner # << >>
     THEN << [seat_index |-> winner[1], finish_position |-> 1] >>
     ELSE << >>)
    \o [i \in 1 .. Len(elimination_order) |->
          [seat_index |-> Reversed(elimination_order)[i],
           finish_position |-> 2 + (i - 1)]]

\* list.sort(key=chips, reverse=True) of the seats of S, taken in seat
\* order: the sort is stable, and reverse keeps the order of equal keys.
RECURSIVE SortedByChips(_, _)
SortedByChips(S, ps) ==
    IF S = {} THEN << >>
    ELSE LET m == CHOOSE x \in S :
                     \A y \in S : \/ ps[x].chips > ps[y].chips
                                  \/ ps[x].chips = ps[y].chips /\ x <= y
         IN  <<m>> \o SortedByChips(S \ {m}, ps)

get_standings(ps, elimination_order) ==
    LET active == SortedByChips({s \in Seats : ~ps[s].is_eliminated}, ps)
    IN  [i \in 1 .. Len(active) |->
            [seat_index |-> active[i], finish_position |-> i]]
        \o [i \in 1 .. Len(elimination_order) |->
              [seat_index |-> Reversed(elimination_order)[i],
               finish_position |-> Len(active) + i]]

\* ---------------------------------------------------------------- evaluator
\* players_hole_cards is the dict's keys in insertion order; hand_rank is the
\* score the treys evaluator gives each seat's hole cards with the board
\* (lower is better); returned is << >> until determine_winners returned,
\* then <<r>> with r its pair of winners and results.
NewEvaluation ==
    [players_hole_cards |-> << >>, hand_rank |-> [s \in {} |-> 0], returned |-> << >>]

evaluate_hand(seat_index, hand_rank) ==
    [player_index |-> seat_index, hand_rank |-> hand_rank[seat_index]]

\* list.sort(key=hand_rank): ascending and stable, the first of the lowest
\* results comes first.
RECURSIVE SortedByHandRank(_)
SortedByHandRank(results) ==
    IF results = << >> THEN << >>
    ELSE LET m == CHOOSE i \in 1 .. Len(results) :
                     \A j \in 1 .. Len(results) :
                         \/ results[i].hand_rank < results[j].hand_rank
                         \/ results[i].hand_rank = results[j].hand_rank /\ i <= j
         IN  <<results[m]>>
             \o SortedByHandRank([i \in 1 .. Len(results) - 1 |->
                                     IF i < m THEN results[i] ELSE results[i + 1]])

compare_hands(players_hole_cards, hand_rank) ==
    SortedByHandRank([i \in 1 .. Len(players_hole_cards) |->
                         evaluate_hand(players_hole_cards[i], hand_rank)])

\* determine_winners taking the first of the results for the only winner.
determine_winners_first_result(players_hole_cards, hand_rank) ==
    IF players_hole_cards = << >> THEN [winners |-> << >>, results |-> << >>]
    ELSE LET results == compare_hands(players_hole_cards, hand_rank)
         IN  [winners |-> << results[1].player_index >>, results |-> results]

determine_winners(players_hole_cards, hand_rank) ==
    IF players_hole_cards = << >> THEN [winners |-> << >>, results |-> << >>]
    ELSE LET results == compare_hands(players_hole_cards, hand_rank)
             best_rank == results[1].hand_rank
             best == SelectSeq(results, LAMBDA r : r.hand_rank = best_rank)
         IN  [winners |-> [i \in 1 .. Len(best) |-> best[i].player_index],
              results |-> results]

\* ------------------------------------------------------------ action logs
\* BettingManager._actions_this_round and GameEngine._all_hand_actions are
\* only appended to and emptied; what is kept of each is its length.
NewActionLog ==
    [actions_this_round |-> 0, all_hand_actions |-> 0]

\* new_round empties the round's log.
log_new_round(log) ==
    [log EXCEPT !.actions_this_round = 0]

\* start_hand empties the hand's log, _post_blinds appends one action for
\* each posting, new_round empties the round's log.
log_start_hand(postings) ==
    [actions_this_round |-> 0, all_hand_actions |-> Len(postings)]

\* apply_action that appends the action before it is validated.
log_apply_action_unvalidated(log, accepted) ==
    [actions_this_round |-> log.actions_this_round + 1,
     all_hand_actions |-> log.all_hand_actions + 1]

\* apply_action of the manager and of the engine each append the Action,
\* after validate_action accepted it.
log_apply_action(log, accepted) ==
    IF accepted
    THEN [actions_this_round |-> log.actions_this_round + 1,
          all_hand_actions |-> log.all_hand_actions + 1]
    ELSE log

\* ---------------------------------------------------------- GameCoordinator
\* The seats played over the WebSocket: those whose agent_id is None.
HumanSeats ==
    {0}

\* GameCoordinator.__init__, with the TurnTimer of the human turn.
\*   pc              where run_game stands; "off" when no coordinator runs
\*   order, next     the list _run_betting_round walks and the index of
\*                   the seat its loop comes to next
\*   is_paused       is_paused; _pause_event is set exactly when it is FALSE
\*   woken           the wait on _pause_event was released by resume()
\*   pending_action  _pending_action: "none" for None, else the future,
\*                   "pending" or "done"
\*   result          the result of the future: << >> for None, else <<msg>>
\*   timer           the task of _run_timer: "none", "running" or "done"
\*   action_received TurnTimer._action_received
\*   decided         << >> or <<a>>, the (action_type, amount) the loop of
\*                   _run_betting_round is about to apply
\*   arrived         << >> or <<msg>>, the message that arrived while the
\*                   turn was pending
\*   fired           on_timeout was called in this turn
\*   dropped         a message arrived in or after this turn while no
\*                   future was pending
NewCoordinator ==
    [pc |-> "off", order |-> << >>, next |-> 1, is_paused |-> FALSE,
     woken |-> FALSE, pending_action |-> "none", result |-> << >>,
     timer |-> "none", action_received |-> FALSE, decided |-> << >>,
     arrived |-> << >>, fired |-> FALSE, dropped |-> FALSE]

\* Where run_game waits in _wait_if_paused.
PausedAt ==
    {"paused_hand", "paused_seat"}

pause(c) ==
    IF ~c.is_paused THEN [c EXCEPT !.is_paused = TRUE] ELSE c

\* _pause_event.set() releases the waiter, who then runs on whatever
\* is_paused has become by the time it is scheduled.
resume(c) ==
    IF c.is_paused
    THEN [c EXCEPT !.is_paused = FALSE, !.woken = (c.pc \in PausedAt)]
    ELSE c

\* receive_player_action that does not look whether the future is done.
receive_player_action_any_future(c, msg) ==
    IF c.pending_action # "none"
    THEN [c EXCEPT !.pending_action = "done", !.result = <<msg>>,
                   !.action_received = TRUE]
    ELSE c

\* set_result and TurnTimer.action_received, when a future is pending.
receive_player_action(c, msg) ==
    IF c.pending_action = "pending"
    THEN [c EXCEPT !.pending_action = "done", !.result = <<msg>>,
                   !.action_received = TRUE]
    ELSE c

\* The closure on_timeout of _get_human_action.
on_timeout(c) ==
    IF c.pending_action = "pending"
    THEN [c EXCEPT !.pending_action = "done", !.result = << >>]
    ELSE c

\* _run_timer to its end: it returns once the event is set; when its
\* seconds have run out with the event still clear it calls on_timeout.
_run_timer(c) ==
    IF c.action_received
    THEN [c EXCEPT !.timer = "done"]
    ELSE [on_timeout(c) EXCEPT !.timer = "done", !.fired = TRUE]

get_timeout_action(can_check) ==
    IF can_check THEN "check" ELSE "fold"

\* _get_human_action up to its await: a new future, a new started timer.
_get_human_action_begin(c) ==
    [c EXCEPT !.pending_action = "pending", !.result = << >>,
              !.timer = "running", !.action_received = FALSE,
              !.arrived = << >>, !.fired = FALSE, !.dropped = FALSE]

\* _get_human_action from its await on: the timer is cancelled, the
\* future forgotten, and None becomes the timeout action.
_get_human_action_end(c, b, p) ==
    [c EXCEPT !.timer = "none", !.pending_action = "none", !.result = << >>,
              !.decided =
                  IF c.result = << >>
                  THEN << [action_type |->
                              get_timeout_action("check" \in get_valid_actions(b, p)),
                           amount |-> << >>] >>
                  ELSE c.result]

\* Two engines are built with the same seed; each has a Deck of its own.
Engines ==
    {1, 2}

\* --------------------------------------------------------------- GameEngine
VARIABLES
    players,          \* seat -> PlayerState
    betting,          \* BettingManager state
    pot,              \* PotManager state
    phase,            \* GameEngine._phase
    hand_number,      \* GameEngine._hand_number
    community_cards,  \* number of community cards on the board
    all_in_amounts,   \* GameEngine._all_in_amounts: all-in seat -> recorded amount
    showdown_result,  \* << >> for None, else <<r>> with r the ShowdownResult
    dealer_position,  \* TurnManager._dealer_position
    blinds,           \* BlindManager state
    hand_start_total, \* sum of all chips immediately before the last start_hand
    hand_steps,       \* how far the current hand is through its lifecycle
    payouts,          \* how often pots were paid out since the last start_hand
    to_act,           \* seats with no accepted action since the last raise / round start
    stray,            \* TRUE once the caller has made a call out of order
    error,            \* the error the last call of the engine raised, else "none"
    starting_chips,   \* seat -> the chips the seat sat down with
    decks,            \* engine -> its Deck, for two engines built with one seed
    dealt,            \* engine -> the cards its deck handed out since its reset
    tournament,       \* TournamentManager state
    evaluation,       \* a call of determine_winners: what it is given and returns
    action_log,       \* lengths of _actions_this_round and _all_hand_actions
    coordinator       \* GameCoordinator state

vars ==
    <<players, betting, pot, phase, hand_number, community_cards, all_in_amounts,
      showdown_result, dealer_position, blinds, hand_start_total, hand_steps, payouts, to_act, stray,
      error, starting_chips, decks, dealt, tournament, evaluation, action_log,
      coordinator>>

SumChips(ps) ==
    SumOver([s \in Seats |-> ps[s].chips], Seats)

\* The non-folded, non-eliminated seats (active_seats in the engine).
ActiveSeats(ps) ==
    {s \in Seats : ~ps[s].is_folded /\ ~ps[s].is_eliminated}

EmptyMap ==
    [s \in {} |-> 0]

BettingPhases ==
    {"pre_flop", "flop", "turn", "river"}

\* The caller.  It drives a hand as the lifecycle foresees: start_hand
\* between hands; actions of any seat while a betting round is open;
\* advance_phase once the round is complete; run_showdown after the river
\* betting, or award_pot_to_last_player during the betting, once per hand;
\* then end_hand.  The engine checks none of this, so the caller may also
\* make a call out of order; the runs explored here hold at most one.
\* A GameCoordinator makes the calls its own code makes, whatever they are.
CallOrder(in_order) ==
    IF in_order \/ coordinator.pc # "off" THEN UNCHANGED stray
    ELSE ~stray /\ stray' = TRUE

\* A call of the engine, end_hand apart, which TournamentManager wraps.
Call(in_order) ==
    /\ CallOrder(in_order)
    /\ UNCHANGED <<starting_chips, decks, dealt, tournament, evaluation>>

\* A call that raises e is one of the calls out of order.
Raises(e) ==
    /\ Call(FALSE)
    /\ error' = e

Init ==
    /\ players \in {[s \in Seats |-> NewPlayer(t[s + 1])] : t \in InitialStacks}
    /\ betting = NewBetting
    /\ pot = NewPot
    /\ phase = "between_hands"
    /\ hand_number = 0
    /\ community_cards = 0
    /\ all_in_amounts = EmptyMap
    /\ showdown_result = << >>
    /\ dealer_position = 0
    /\ blinds = NewBlinds
    /\ hand_start_total = SumChips(players)
    /\ hand_steps = "none"
    /\ payouts = 0
    /\ to_act = Seats
    /\ stray = FALSE
    /\ error = "none"
    /\ starting_chips = [s \in Seats |-> players[s].chips]
    /\ decks = [i \in Engines |-> NewDeck(<<0>>, 0)]
    /\ dealt = [i \in Engines |-> << >>]
    /\ tournament = NewTournament
    /\ evaluation = NewEvaluation
    /\ action_log = NewActionLog
    /\ coordinator = NewCoordinator

\* One iteration of the loop of _post_blinds on st = [players, pot, aia].
PostBlind(st, posting) ==
    LET seat == posting[1]
        amount == posting[2]
        chips1 == st.players[seat].chips - amount
    IN  [players |-> [st.players EXCEPT ![seat].chips = chips1,
                                        ![seat].current_bet = amount,
                                        ![seat].is_all_in = (chips1 = 0) \/ @],
         pot |-> add_bet(st.pot, seat, amount),
         aia |-> IF chips1 = 0
                 THEN [s \in DOMAIN st.aia \cup {seat} |->
                          IF s = seat THEN amount ELSE st.aia[s]]
                 ELSE st.aia]

RECURSIVE PostAll(_, _)
PostAll(st, postings) ==
    IF postings = << >> THEN st
    ELSE PostAll(PostBlind(st, Head(postings)), Tail(postings))

\* start_hand has reset the deck, so its cursor is 0; the non-eliminated
\* players take the hands in seat order.
_deal_hole_cards(ps) ==
    LET active_players == {s \in Seats : ~ps[s].is_eliminated}
        hands == deal_to_players(0, Cardinality(active_players))
    IN  [s \in Seats |->
           IF s \in active_players
           THEN [ps[s] EXCEPT !.hole_cards =
                    hands[Cardinality({t \in active_players : t < s}) + 1]]
           ELSE ps[s]]

_post_blinds(ps, pm, dealer, bl) ==
    LET pos == get_blind_positions(dealer, ps)
        postings == get_blind_posting(bl, pos[1], pos[2],
                                      ps[pos[1]].chips, ps[pos[2]].chips)
    IN  PostAll([players |-> ps, pot |-> pm, aia |-> EmptyMap], postings)

StartHand ==
    /\ hand_number < MaxHands
    /\ Call(phase = "between_hands")
    /\ error' = "none"
    /\ LET reset == [s \in Seats |->
                       IF players[s].is_eliminated THEN players[s]
                       ELSE [players[s] EXCEPT !.is_folded = FALSE,
                                               !.is_all_in = FALSE,
                                               !.current_bet = 0,
                                               !.hole_cards = << >>,
                                               !.has_acted = FALSE]]
           dealer == advance_dealer(dealer_position, reset)
           posted == _post_blinds(reset, NewPot, dealer, blinds)
       IN  /\ players' = _deal_hole_cards(posted.players)
           /\ pot' = posted.pot
           /\ all_in_amounts' = posted.aia
           /\ dealer_position' = dealer
    /\ hand_number' = hand_number + 1
    /\ phase' = "pre_flop"
    /\ community_cards' = 0
    /\ showdown_result' = << >>
    /\ betting' = new_round(big_blind(blinds))
    /\ hand_start_total' = SumChips(players)
    /\ hand_steps' = "betting"
    /\ payouts' = 0
    /\ to_act' = Seats
    /\ UNCHANGED blinds

ApplyAction(seat_index, action_type, amount) ==
    IF validate_action(betting, players[seat_index], action_type, amount)
    THEN
        /\ Call(phase \in BettingPhases /\ ~is_round_complete(betting, players))
        /\ error' = "none"
        /\ LET r == betting_apply_action(betting, players[seat_index],
                                         seat_index, action_type, amount)
           IN  /\ players' = [players EXCEPT ![seat_index] = r.player]
               /\ betting' = r.betting
               /\ all_in_amounts' =
                     IF r.player.is_all_in /\ seat_index \notin DOMAIN all_in_amounts
                     THEN [s \in DOMAIN all_in_amounts \cup {seat_index} |->
                             IF s = seat_index THEN r.player.current_bet
                             ELSE all_in_amounts[s]]
                     ELSE all_in_amounts
               /\ pot' = IF r.amount > 0 THEN add_bet(pot, seat_index, r.amount)
                         ELSE pot
        /\ to_act' = IF action_type = "raise" THEN Seats \ {seat_index}
                      ELSE to_act \ {seat_index}
        /\ hand_steps' = IF hand_steps = "betting" THEN "betting" ELSE "none"
        /\ UNCHANGED <<phase, hand_number, community_cards, showdown_result,
                       dealer_position, blinds, hand_start_total, payouts>>
    ELSE
        \* raise InvalidActionError
        /\ Raises("InvalidActionError")
        /\ UNCHANGED <<players, betting, pot, phase, hand_number, community_cards,
                       all_in_amounts, showdown_result, dealer_position, blinds,
                       hand_start_total, hand_steps, payouts, to_act>>

NextPhase(ph) ==
    CASE ph = "pre_flop" -> "flop"
      [] ph = "flop"     -> "turn"
      [] ph = "turn"     -> "river"
      [] ph = "river"    -> "showdown"
      [] OTHER           -> ph

\* Cards deal_community adds to the board when the phase is entered.
Dealt(ph, newph) ==
    CASE ph = "pre_flop" -> 3
      [] ph = "flop"     -> 1
      [] ph = "turn"     -> 1
      [] OTHER           -> 0

\* "Recalculate side pots" as advance_phase and run_showdown do it.
RecalculatePots(pm, ps, aia) ==
    IF DOMAIN aia # {} THEN calculate_side_pots(pm, aia, ActiveSeats(ps)) ELSE pm

AdvancePhase ==
    /\ Call(phase \in BettingPhases /\ is_round_complete(betting, players))
    /\ error' = "none"
    /\ players' = [s \in Seats |->
                     [players[s] EXCEPT !.current_bet = 0, !.has_acted = FALSE]]
    /\ pot' = RecalculatePots(pot, players, all_in_amounts)
    /\ phase' = NextPhase(phase)
    /\ community_cards' = community_cards + Dealt(phase, NextPhase(phase))
    /\ betting' = IF NextPhase(phase) \in {"flop", "turn", "river"}
                  THEN new_round(0) ELSE betting
    /\ to_act' = IF NextPhase(phase) \in {"flop", "turn", "river"} THEN Seats ELSE to_act
    /\ hand_steps' = IF hand_steps = "betting" THEN "betting" ELSE "none"
    /\ UNCHANGED <<hand_number, all_in_amounts, showdown_result, dealer_position,
                   blinds, hand_start_total, payouts>>

\* Seats whose hole cards run_showdown gathers.
\* PlayersHands that also gathers the cards of eliminated players.
PlayersHands_with_eliminated(ps) ==
    {s \in Seats : ~ps[s].is_folded /\ ps[s].hole_cards # << >>}

PlayersHands(ps) ==
    {s \in Seats : ~ps[s].is_folded /\ ~ps[s].is_eliminated
                    /\ ps[s].hole_cards # << >>}

\* The seats of S with the best (lowest) hand_rank, in hand_results order:
\* the sort is stable over seats gathered in seat order.
BestSeats(S, hand_rank) ==
    SortedSeq({s \in S : \A t \in S : hand_rank[s] <= hand_rank[t]})

\* pot_winners of run_showdown for one pot.
PotWinners(p, hands, hand_rank) ==
    LET eligible_results == hands \cap p.eligible_players
        winners == BestSeats(hands, hand_rank)
    IN  IF eligible_results # {} THEN BestSeats(eligible_results, hand_rank)
        ELSE SubSeq(winners, 1, Min(1, Len(winners)))

\* Strengths the evaluator may give the hands (lower is better).  The cards
\* do not change during a hand: a seat that was evaluated before in this
\* hand gets the strength it got then.
PossibleRanks(hands) ==
    {hr \in [hands -> 1 .. MaxRank] :
        showdown_result # << >> =>
            \A s \in hands \cap DOMAIN showdown_result[1].hand_results :
                hr[s] = showdown_result[1].hand_results[s]}

RunShowdown ==
    LET pot1 == RecalculatePots(pot, players, all_in_amounts)
        hands == PlayersHands(players)
    IN
    /\ Call(phase \in {"river", "showdown"} /\ payouts = 0
            /\ is_round_complete(betting, players))
    /\ phase' = "showdown"
    /\ pot' = pot1
    /\ IF hands = {} THEN
            \* return ShowdownResult(winners=[]) before anything is paid
            /\ error' = "none"
            /\ hand_steps' = IF hand_steps = "betting" THEN "paid" ELSE "none"
            /\ UNCHANGED <<players, showdown_result, payouts>>
       ELSE IF community_cards < 3 THEN
            \* evaluate_hand raises ValueError
            /\ error' = "ValueError"
            /\ hand_steps' = "none"
            /\ UNCHANGED <<players, showdown_result, payouts>>
       ELSE \E hand_rank \in PossibleRanks(hands) :
            LET winners_per_pot == [i \in 1 .. Len(pot1.pots) |->
                                      PotWinners(pot1.pots[i], hands, hand_rank)]
                winnings == distribute(pot1, winners_per_pot)
            IN  /\ error' = "none"
                /\ payouts' = payouts + 1
                /\ players' = [s \in Seats |->
                                 [players[s] EXCEPT !.chips = @ + winnings[s]]]
                /\ showdown_result' =
                      << [winners |-> BestSeats(hands, hand_rank),
                          hand_results |-> hand_rank,
                          pot_distributions |->
                              [i \in 1 .. Len(pot1.pots) |->
                                  [pot_amount |-> pot1.pots[i].amount,
                                   winners |-> winners_per_pot[i]]]] >>
                /\ hand_steps' = IF hand_steps = "betting" THEN "paid" ELSE "none"
    /\ UNCHANGED <<betting, hand_number, community_cards, all_in_amounts,
                   dealer_position, blinds, hand_start_total, to_act>>

AwardPotToLastPlayer ==
    LET active == ActiveSeats(players) IN
    IF Cardinality(active) # 1 THEN
        \* raise ValueError
        /\ Raises("ValueError")
        /\ UNCHANGED <<players, betting, pot, phase, hand_number, community_cards,
                       all_in_amounts, showdown_result, dealer_position, blinds,
                       hand_start_total, hand_steps, payouts, to_act>>
    ELSE
        LET winner == CHOOSE s \in active : TRUE
            winnings == distribute_simple(pot, <<winner>>)
        IN  /\ Call(phase \in BettingPhases /\ payouts = 0)
            /\ error' = "none"
            /\ payouts' = payouts + 1
            /\ players' = [s \in Seats |->
                             [players[s] EXCEPT !.chips = @ + winnings[s]]]
            /\ phase' = "between_hands"
            /\ hand_steps' = IF hand_steps = "betting" THEN "paid" ELSE "none"
            /\ UNCHANGED <<betting, pot, hand_number, community_cards, all_in_amounts,
                           showdown_result, dealer_position, blinds, hand_start_total,
                           to_act>>

\* GameEngine.active_player_count
active_player_count(ps) ==
    Cardinality({s \in Seats : ~ps[s].is_eliminated})

is_tournament_over(ps) ==
    active_player_count(ps) <= 1

\* get_winner that returns the first player not eliminated, however many
\* are left.
get_winner_first_active(ps) ==
    LET active == {s \in Seats : ~ps[s].is_eliminated}
    IN  IF active # {} THEN <<SortedSeq(active)[1]>> ELSE << >>

\* << >> stands for None.
get_winner(ps) ==
    LET active == {s \in Seats : ~ps[s].is_eliminated}
    IN  IF Cardinality(active) = 1 THEN SortedSeq(active) ELSE << >>

\* The caller ends only hands that were started, and in order it ends them
\* after their payout.
EndHand ==
    /\ hands_ended(blinds) < hand_number
    /\ CallOrder(payouts >= 1 \/ hand_steps = "paid")
    /\ UNCHANGED <<starting_chips, decks, dealt, evaluation>>
    /\ phase' = "between_hands"
    /\ players' = [s \in Seats |->
                     [players[s] EXCEPT !.is_eliminated = @ \/ players[s].chips = 0]]
    /\ blinds' = advance_hand(blinds)
    /\ hand_steps' = IF hand_steps = "paid" THEN "ended" ELSE "none"
    /\ error' = "none"
    /\ UNCHANGED <<betting, pot, hand_number, community_cards, all_in_amounts,
                   showdown_result, dealer_position, hand_start_total, payouts, to_act>>

\* The engine on its own: nobody keeps the action logs, no coordinator runs.
EngineAlone ==
    UNCHANGED <<action_log, coordinator>>

Next ==
    \/ StartHand /\ EngineAlone
    \/ \E seat_index \in Seats, action_type \in ActionTypes :
         \E amount \in (IF action_type = "raise" THEN RaiseAmounts ELSE {<< >>}) :
            ApplyAction(seat_index, action_type, amount) /\ EngineAlone
    \/ AdvancePhase /\ EngineAlone
    \/ RunShowdown /\ EngineAlone
    \/ AwardPotToLastPlayer /\ EngineAlone
    \/ EndHand /\ UNCHANGED tournament /\ EngineAlone

Spec ==
    Init /\ [][Next]_vars

\* ------------------------------------------- the engine in a TournamentManager
\* _update_hand_stats, for the count of all-ins.
_update_hand_stats(ps, total_all_ins) ==
    total_all_ins + Cardinality({s \in Seats : ps[s].is_all_in})

_check_eliminations(ps) ==
    SortedSeq({s \in Seats : ps[s].chips = 0 /\ ~ps[s].is_eliminated})

\* TournamentManager.end_hand: the statistics and the seats about to be
\* eliminated are taken before the engine's end_hand, the standings of the
\* eliminated are recorded after it, and the result once the tournament is over.
TournamentEndHand ==
    /\ EndHand
    /\ LET order == tournament.elimination_order \o _check_eliminations(players)
       IN  tournament' =
              [total_all_ins |-> _update_hand_stats(players, tournament.total_all_ins),
               elimination_order |-> order,
               result |-> IF is_tournament_over(players')
                          THEN << _finalize(get_winner(players'), order) >>
                          ELSE tournament.result]

\* TournamentManager.start_hand is the engine's start_hand; the other calls
\* are made on the engine.
NextTournament ==
    \/ StartHand /\ EngineAlone
    \/ \E seat_index \in Seats, action_type \in ActionTypes :
         \E amount \in (IF action_type = "raise" THEN RaiseAmounts ELSE {<< >>}) :
            ApplyAction(seat_index, action_type, amount) /\ EngineAlone
    \/ AdvancePhase /\ EngineAlone
    \/ RunShowdown /\ EngineAlone
    \/ AwardPotToLastPlayer /\ EngineAlone
    \/ TournamentEndHand /\ EngineAlone

SpecTournament ==
    Init /\ [][NextTournament]_vars

\* ----------------------------------------------- calculate_side_pots alone
\* A PotManager that took arbitrary bets, an arbitrary all-in map and an
\* arbitrary set of seats still in the hand, at the end of the river betting.
InitPot ==
    /\ \E c \in [Seats -> 0 .. MaxContribution], active \in SUBSET Seats :
          /\ pot = [pots |-> << [amount |-> SumOver(c, Seats),
                                 eligible_players |-> {s \in Seats : c[s] > 0}] >>,
                    player_contributions |-> c]
          /\ players = [s \in Seats |->
                          [NewPlayer(0) EXCEPT !.is_folded = s \notin active,
                                               !.hole_cards =
                                                   deal_to_players(0, NumSeats)[s + 1]]]
    /\ \E D \in SUBSET Seats : all_in_amounts \in [D -> 0 .. MaxLevel]
    /\ betting = NewBetting
    /\ phase = "river"
    /\ hand_number = 1
    /\ community_cards = 5
    /\ showdown_result = << >>
    /\ dealer_position = 0
    /\ blinds = NewBlinds
    /\ hand_start_total = SumChips(players)
    /\ hand_steps = "betting"
    /\ payouts = 0
    /\ to_act = Seats
    /\ stray = FALSE
    /\ error = "none"
    /\ starting_chips = [s \in Seats |-> players[s].chips]
    /\ decks = [i \in Engines |-> NewDeck(<<0>>, 0)]
    /\ dealt = [i \in Engines |-> << >>]
    /\ tournament = NewTournament
    /\ evaluation = NewEvaluation
    /\ action_log = NewActionLog
    /\ coordinator = NewCoordinator

\* "Recalculate side pots one final time", the first step of run_showdown,
\* without the engine's test that the all-in map is not empty.
SplitPots ==
    /\ phase = "river"
    /\ phase' = "showdown"
    /\ pot' = calculate_side_pots(pot, all_in_amounts, ActiveSeats(players))
    /\ UNCHANGED <<players, betting, hand_number, community_cards, all_in_amounts,
                   showdown_result, dealer_position, blinds, hand_start_total,
                   hand_steps, payouts, to_act, stray, error, starting_chips,
                   decks, dealt, tournament, evaluation, action_log,
                   coordinator>>

NextPot ==
    SplitPots

SpecPot ==
    InitPot /\ [][NextPot]_vars

\* ------------------------------------------------------------ distribute alone
\* Lists of distinct seats, in any order, the empty list included.
WinnerLists ==
    {w \in UNION {[1 .. n -> Seats] : n \in 0 .. NumSeats} :
        \A i, j \in 1 .. Len(w) : i # j => w[i] # w[j]}

\* A PotManager holding up to MaxPots pots of arbitrary amounts, and players
\* without chips, so that a seat's chips are what it is paid.
InitDistribute ==
    /\ \E n \in 1 .. MaxPots :
          \E a \in [1 .. n -> 0 .. MaxContribution] :
              pot = [pots |-> [i \in 1 .. n |->
                                 [amount |-> a[i], eligible_players |-> Seats]],
                     player_contributions |-> [s \in Seats |-> 0]]
    /\ players = [s \in Seats |-> [NewPlayer(0) EXCEPT !.hole_cards =
                                        deal_to_players(0, NumSeats)[s + 1]]]
    /\ all_in_amounts = EmptyMap
    /\ betting = NewBetting
    /\ phase = "river"
    /\ hand_number = 1
    /\ community_cards = 5
    /\ showdown_result = << >>
    /\ dealer_position = 0
    /\ blinds = NewBlinds
    /\ hand_start_total = 0
    /\ hand_steps = "betting"
    /\ payouts = 0
    /\ to_act = Seats
    /\ stray = FALSE
    /\ error = "none"
    /\ starting_chips = [s \in Seats |-> players[s].chips]
    /\ decks = [i \in Engines |-> NewDeck(<<0>>, 0)]
    /\ dealt = [i \in Engines |-> << >>]
    /\ tournament = NewTournament
    /\ evaluation = NewEvaluation
    /\ action_log = NewActionLog
    /\ coordinator = NewCoordinator

\* distribute(winners_per_pot) for any lists of winners, and what
\* run_showdown does with its result: the winnings go to the stacks and the
\* lists are kept in the ShowdownResult.
Distribute ==
    /\ phase = "river"
    /\ phase' = "showdown"
    /\ \E n \in 0 .. Len(pot.pots) :
          \E winners_per_pot \in [1 .. n -> WinnerLists] :
              LET winnings == distribute(pot, winners_per_pot)
              IN  /\ players' = [s \in Seats |->
                                   [players[s] EXCEPT !.chips = @ + winnings[s]]]
                  /\ showdown_result' =
                        << [winners |-> << >>,
                            hand_results |-> EmptyMap,
                            pot_distributions |->
                                [i \in 1 .. n |->
                                    [pot_amount |-> pot.pots[i].amount,
                                     winners |-> winners_per_pot[i]]]] >>
    /\ payouts' = payouts + 1
    /\ UNCHANGED <<betting, pot, hand_number, community_cards, all_in_amounts,
                   dealer_position, blinds, hand_start_total, hand_steps, to_act,
                   stray, error, starting_chips,
                   decks, dealt, tournament, evaluation, action_log,
                   coordinator>>

NextDistribute ==
    Distribute

SpecDistribute ==
    InitDistribute /\ [][NextDistribute]_vars

\* ------------------------------------------------------- TurnManager alone
\* The flags a seat can carry.
SeatFlags ==
    [is_folded : BOOLEAN, is_all_in : BOOLEAN, is_eliminated : BOOLEAN]

\* Any button position over any combination of folded, all-in and eliminated
\* seats.
InitTurn ==
    /\ \E f \in [Seats -> SeatFlags] :
          players = [s \in Seats |->
                       [NewPlayer(1) EXCEPT !.is_folded = f[s].is_folded,
                                            !.is_all_in = f[s].is_all_in,
                                            !.is_eliminated = f[s].is_eliminated]]
    /\ dealer_position \in Seats
    /\ pot = NewPot
    /\ all_in_amounts = EmptyMap
    /\ betting = NewBetting
    /\ phase = "between_hands"
    /\ hand_number = 0
    /\ community_cards = 0
    /\ showdown_result = << >>
    /\ blinds = NewBlinds
    /\ hand_start_total = SumChips(players)
    /\ hand_steps = "none"
    /\ payouts = 0
    /\ to_act = Seats
    /\ stray = FALSE
    /\ error = "none"
    /\ starting_chips = [s \in Seats |-> players[s].chips]
    /\ decks = [i \in Engines |-> NewDeck(<<0>>, 0)]
    /\ dealt = [i \in Engines |-> << >>]
    /\ tournament = NewTournament
    /\ evaluation = NewEvaluation
    /\ action_log = NewActionLog
    /\ coordinator = NewCoordinator

\* advance_dealer as start_hand calls it, the hands being counted.
AdvanceDealer ==
    /\ hand_number < MaxHands
    /\ hand_number' = hand_number + 1
    /\ dealer_position' = advance_dealer(dealer_position, players)
    /\ UNCHANGED <<players, betting, pot, phase, community_cards, all_in_amounts,
                   showdown_result, blinds, hand_start_total, hand_steps, payouts,
                   to_act, stray, error, starting_chips,
                   decks, dealt, tournament, evaluation, action_log,
                   coordinator>>

NextTurn ==
    AdvanceDealer

SpecTurn ==
    InitTurn /\ [][NextTurn]_vars

\* ------------------------------------------------------ BlindManager alone
\* Schedules a BlindManager may be constructed with.
Schedules ==
    {Levels, << <<1, 2>> >>, << <<1, 2>>, <<2, 4>>, <<4, 8>> >>}

\* A fresh BlindManager(levels, hands_per_level).
InitBlinds ==
    /\ \E l \in Schedules, h \in 1 .. MaxHandsPerLevel :
          blinds = [NewBlinds EXCEPT !.levels = l, !.hands_per_level = h]
    /\ players = [s \in Seats |-> NewPlayer(0)]
    /\ dealer_position = 0
    /\ pot = NewPot
    /\ all_in_amounts = EmptyMap
    /\ betting = NewBetting
    /\ phase = "between_hands"
    /\ hand_number = 0
    /\ community_cards = 0
    /\ showdown_result = << >>
    /\ hand_start_total = SumChips(players)
    /\ hand_steps = "none"
    /\ payouts = 0
    /\ to_act = Seats
    /\ stray = FALSE
    /\ error = "none"
    /\ starting_chips = [s \in Seats |-> players[s].chips]
    /\ decks = [i \in Engines |-> NewDeck(<<0>>, 0)]
    /\ dealt = [i \in Engines |-> << >>]
    /\ tournament = NewTournament
    /\ evaluation = NewEvaluation
    /\ action_log = NewActionLog
    /\ coordinator = NewCoordinator

\* advance_hand, once for each hand that was played.
AdvanceHand ==
    /\ hand_number < MaxCalls
    /\ hand_number' = hand_number + 1
    /\ blinds' = advance_hand(blinds)
    /\ UNCHANGED <<players, betting, pot, phase, community_cards, all_in_amounts,
                   showdown_result, dealer_position, hand_start_total, hand_steps,
                   payouts, to_act, stray, error, starting_chips,
                   decks, dealt, tournament, evaluation, action_log,
                   coordinator>>

NextBlinds ==
    AdvanceHand

SpecBlinds ==
    InitBlinds /\ [][NextBlinds]_vars

\* ------------------------------------------------------------- Deck alone
\* The counts deal is asked for: none, too few, some, half the deck, more
\* than the deck.
DealCounts ==
    {-1, 0, 1, 5, 26, 53}

\* The decks of two engines built with the same seed, each generator with
\* the entropy of its own to fall back on.
InitDeck ==
    /\ \E seed \in 0 .. MaxSeed, entropy \in [Engines -> 0 .. MaxSeed] :
          decks = [i \in Engines |-> NewDeck(<<seed>>, entropy[i])]
    /\ dealt = [i \in Engines |-> << >>]
    /\ tournament = NewTournament
    /\ evaluation = NewEvaluation
    /\ action_log = NewActionLog
    /\ coordinator = NewCoordinator
    /\ players = [s \in Seats |-> NewPlayer(0)]
    /\ starting_chips = [s \in Seats |-> 0]
    /\ betting = NewBetting
    /\ pot = NewPot
    /\ phase = "between_hands"
    /\ hand_number = 0
    /\ community_cards = 0
    /\ all_in_amounts = EmptyMap
    /\ showdown_result = << >>
    /\ dealer_position = 0
    /\ blinds = NewBlinds
    /\ hand_start_total = 0
    /\ hand_steps = "none"
    /\ payouts = 0
    /\ to_act = Seats
    /\ stray = FALSE
    /\ error = "none"

\* The same call is made on both decks; hand_number counts the calls.
DeckCall ==
    /\ hand_number < MaxDeckCalls
    /\ hand_number' = hand_number + 1
    /\ UNCHANGED <<players, betting, pot, phase, community_cards, all_in_amounts,
                   showdown_result, dealer_position, blinds, hand_start_total,
                   hand_steps, payouts, to_act, stray, starting_chips,
                   tournament, evaluation, action_log, coordinator>>

DeckReset ==
    /\ DeckCall
    /\ decks' = [i \in Engines |-> reset_deck(decks[i])]
    /\ dealt' = [i \in Engines |-> << >>]
    /\ error' = "none"

DeckShuffle ==
    /\ DeckCall
    /\ decks' = [i \in Engines |-> shuffle(decks[i])]
    /\ error' = "none"
    /\ UNCHANGED dealt

\* A call that hands out cards or raises; r[i] is what it does on deck i.
DeckHandsOut(r) ==
    /\ DeckCall
    /\ decks' = [i \in Engines |-> r[i].deck]
    /\ dealt' = [i \in Engines |-> dealt[i] \o r[i].cards]
    /\ error' = r[1].error

DeckDeal(count) ==
    DeckHandsOut([i \in Engines |-> deal(decks[i], count)])

DeckDealOne ==
    DeckHandsOut([i \in Engines |-> deal_one(decks[i])])

DeckBurn ==
    DeckHandsOut([i \in Engines |-> burn(decks[i])])

NextDeck ==
    \/ DeckReset
    \/ DeckShuffle
    \/ \E count \in DealCounts : DeckDeal(count)
    \/ DeckDealOne
    \/ DeckBurn

SpecDeck ==
    InitDeck /\ [][NextDeck]_vars

\* ------------------------------------------------- determine_winners alone
\* The hole cards of any seats, put into the dict in any order, with any
\* scores, and a board of any number of cards.
DictOrders ==
    {q \in UNION {[1 .. n -> Seats] : n \in 0 .. Cardinality(Seats)} :
        \A i, j \in 1 .. Len(q) : i # j => q[i] # q[j]}

InitWinners ==
    /\ \E q \in DictOrders :
          \E hr \in [{q[i] : i \in 1 .. Len(q)} -> 1 .. MaxRank] :
             evaluation = [players_hole_cards |-> q, hand_rank |-> hr,
                           returned |-> << >>]
    /\ community_cards \in 0 .. 5
    /\ action_log = NewActionLog
    /\ coordinator = NewCoordinator
    /\ players = [s \in Seats |-> NewPlayer(0)]
    /\ starting_chips = [s \in Seats |-> 0]
    /\ decks = [i \in Engines |-> NewDeck(<<0>>, 0)]
    /\ dealt = [i \in Engines |-> << >>]
    /\ tournament = NewTournament
    /\ betting = NewBetting
    /\ pot = NewPot
    /\ phase = "showdown"
    /\ hand_number = 0
    /\ all_in_amounts = EmptyMap
    /\ showdown_result = << >>
    /\ dealer_position = 0
    /\ blinds = NewBlinds
    /\ hand_start_total = 0
    /\ hand_steps = "none"
    /\ payouts = 0
    /\ to_act = Seats
    /\ stray = FALSE
    /\ error = "none"

\* determine_winners(players_hole_cards, community_cards): evaluate_hand
\* raises ValueError for a board of fewer than 3 cards.
DetermineWinners ==
    /\ IF evaluation.players_hole_cards # << >> /\ community_cards < 3
       THEN /\ error' = "ValueError"
            /\ UNCHANGED evaluation
       ELSE /\ error' = "none"
            /\ evaluation' =
                  [evaluation EXCEPT !.returned =
                      << determine_winners(evaluation.players_hole_cards,
                                           evaluation.hand_rank) >>]
    /\ UNCHANGED <<players, betting, pot, phase, hand_number, community_cards,
                   all_in_amounts, showdown_result, dealer_position, blinds,
                   hand_start_total, hand_steps, payouts, to_act, stray,
                   starting_chips, decks, dealt, tournament, action_log,
                   coordinator>>

NextWinners ==
    DetermineWinners

SpecWinners ==
    InitWinners /\ [][NextWinners]_vars

\* --------------------------------------------------- betting rounds alone
\* Hands whose calls all come in their place, up to the end of the river
\* betting; the players keep acting as long as the engine accepts an action
\* in an open round.
AcceptedAction(seat_index, action_type, amount) ==
    /\ phase \in BettingPhases
    /\ ~is_round_complete(betting, players)
    /\ validate_action(betting, players[seat_index], action_type, amount)
    /\ ApplyAction(seat_index, action_type, amount)

PlayersAct ==
    \E seat_index \in Seats, action_type \in ActionTypes :
       \E amount \in (IF action_type = "raise" THEN RaiseAmounts ELSE {<< >>}) :
          AcceptedAction(seat_index, action_type, amount)

RoundOver ==
    /\ phase \in BettingPhases \ {"river"}
    /\ is_round_complete(betting, players)
    /\ AdvancePhase

NextRound ==
    \/ phase = "between_hands" /\ StartHand /\ EngineAlone
    \/ PlayersAct /\ EngineAlone
    \/ RoundOver /\ EngineAlone

SpecRound ==
    Init /\ [][NextRound]_vars /\ WF_vars(PlayersAct /\ EngineAlone)

\* ------------------------------------------------ the engine with its logs
\* The calls of a hand up to the river betting, with the action logs kept;
\* a hand logs at most MaxActions actions.
StartHandLogged ==
    /\ phase = "between_hands"
    /\ StartHand
    /\ LET dealer == advance_dealer(dealer_position, players)
           pos == get_blind_positions(dealer, players)
       IN  action_log' =
              log_start_hand(get_blind_posting(blinds, pos[1], pos[2],
                                               players[pos[1]].chips,
                                               players[pos[2]].chips))
    /\ UNCHANGED coordinator

ApplyActionLogged(seat_index, action_type, amount) ==
    LET accepted == validate_action(betting, players[seat_index],
                                    action_type, amount)
    IN  /\ accepted => action_log.all_hand_actions < MaxActions
        /\ ApplyAction(seat_index, action_type, amount)
        /\ action_log' = log_apply_action(action_log, accepted)
        /\ UNCHANGED coordinator

AdvancePhaseLogged ==
    /\ phase \in BettingPhases \ {"river"}
    /\ is_round_complete(betting, players)
    /\ AdvancePhase
    /\ action_log' = log_new_round(action_log)
    /\ UNCHANGED coordinator

NextActions ==
    \/ StartHandLogged
    \/ \E seat_index \in Seats, action_type \in ActionTypes :
         \E amount \in (IF action_type = "raise" THEN RaiseAmounts ELSE {<< >>}) :
            ApplyActionLogged(seat_index, action_type, amount)
    \/ AdvancePhaseLogged

SpecActions ==
    Init /\ [][NextActions]_vars

\* ------------------------------------- the engine under a GameCoordinator
\* run_game is one task; the timer, the pauses and the messages of the
\* WebSocket run between its awaits.  Each action below is the code from
\* one await to the next, and what the engine logs is not kept.
EngineState ==
    <<players, betting, pot, phase, hand_number, community_cards, all_in_amounts,
      showdown_result, dealer_position, blinds, hand_start_total, hand_steps,
      payouts, to_act, stray, error, starting_chips, decks, dealt, tournament,
      evaluation, action_log>>

InitCoordinator ==
    /\ players \in {[s \in Seats |-> NewPlayer(t[s + 1])] : t \in InitialStacks}
    /\ betting = NewBetting
    /\ pot = NewPot
    /\ phase = "between_hands"
    /\ hand_number = 0
    /\ community_cards = 0
    /\ all_in_amounts = EmptyMap
    /\ showdown_result = << >>
    /\ dealer_position = 0
    /\ blinds = NewBlinds
    /\ hand_start_total = SumChips(players)
    /\ hand_steps = "none"
    /\ payouts = 0
    /\ to_act = Seats
    /\ stray = FALSE
    /\ error = "none"
    /\ starting_chips = [s \in Seats |-> players[s].chips]
    /\ decks = [i \in Engines |-> NewDeck(<<0>>, 0)]
    /\ dealt = [i \in Engines |-> << >>]
    /\ tournament = NewTournament
    /\ evaluation = NewEvaluation
    /\ action_log = NewActionLog
    /\ coordinator = [NewCoordinator EXCEPT !.pc = "hand_top"]

\* What a player message or an AI decision may hold.
Decisions ==
    {[action_type |-> t, amount |-> a] :
        t \in ActionTypes \ {"raise"}, a \in {<< >>}}
    \cup {[action_type |-> "raise", amount |-> a] : a \in RaiseAmounts}

\* The awaits at which run_game may be suspended.
Suspended ==
    coordinator.pc \in {"hand_top", "paused_hand", "paused_seat", "seat", "ai",
                        "human", "finish", "end_hand", "done"}

_hand_is_over(ps) ==
    Cardinality(ActiveSeats(ps)) <= 1

\* The seat the loop of _run_betting_round stands at.
CurrentSeat ==
    coordinator.order[coordinator.next]

\* The loop of run_game: the test of the while, _wait_if_paused, and
\* _run_hand up to the await after start_hand.
RunGame ==
    /\ \/ coordinator.pc = "hand_top"
       \/ coordinator.pc = "paused_hand" /\ coordinator.woken
    /\ IF coordinator.pc = "hand_top" /\ is_tournament_over(players)
       THEN /\ coordinator' = [coordinator EXCEPT !.pc = "done"]
            /\ UNCHANGED EngineState
       ELSE IF coordinator.pc = "hand_top" /\ coordinator.is_paused
       THEN /\ coordinator' = [coordinator EXCEPT !.pc = "paused_hand",
                                                  !.woken = FALSE]
            /\ UNCHANGED EngineState
       ELSE /\ StartHand
            /\ UNCHANGED action_log
            /\ coordinator' =
                  [coordinator EXCEPT
                      !.pc = "seat", !.woken = FALSE, !.next = 1,
                      !.order = get_preflop_order(
                                    players',
                                    get_blind_positions(dealer_position', players')[2])]

\* One pass of the loop of _run_betting_round, up to the await of the
\* action of the seat.
BettingLoop ==
    /\ \/ coordinator.pc = "seat"
       \/ coordinator.pc = "paused_seat" /\ coordinator.woken
    /\ UNCHANGED EngineState
    /\ IF coordinator.pc = "seat" /\ coordinator.next > Len(coordinator.order)
       THEN coordinator' = [coordinator EXCEPT !.pc = "round_end"]
       ELSE IF coordinator.pc = "seat" /\ coordinator.is_paused
       THEN coordinator' = [coordinator EXCEPT !.pc = "paused_seat", !.woken = FALSE]
       ELSE LET player == players[CurrentSeat]
                c == [coordinator EXCEPT !.woken = FALSE]
            IN  IF player.is_folded \/ player.is_eliminated \/ player.is_all_in
                THEN coordinator' = [c EXCEPT !.pc = "seat", !.next = @ + 1]
                ELSE IF _hand_is_over(players)
                THEN coordinator' = [c EXCEPT !.pc = "round_end"]
                ELSE IF CurrentSeat \in HumanSeats
                THEN coordinator' = [_get_human_action_begin(c) EXCEPT !.pc = "human"]
                ELSE coordinator' = [c EXCEPT !.pc = "ai"]

\* _get_ai_action returns.
AIDecides(a) ==
    /\ coordinator.pc = "ai"
    /\ coordinator' = [coordinator EXCEPT !.pc = "apply", !.decided = <<a>>]
    /\ UNCHANGED EngineState

\* The future of _get_human_action has its result.
HumanReturns ==
    /\ coordinator.pc = "human"
    /\ coordinator.pending_action = "done"
    /\ coordinator' =
          [_get_human_action_end(coordinator, betting, players[CurrentSeat])
              EXCEPT !.pc = "apply"]
    /\ UNCHANGED EngineState

\* The loop goes on to its next seat.
NextSeat(c) ==
    [c EXCEPT !.pc = "seat", !.next = @ + 1, !.decided = << >>, !.dropped = FALSE]

\* engine.apply_action in the try of _run_betting_round.
ApplyDecided ==
    /\ coordinator.pc = "apply"
    /\ LET a == coordinator.decided[1] IN
       /\ ApplyAction(CurrentSeat, a.action_type, a.amount)
       /\ coordinator' =
             IF validate_action(betting, players[CurrentSeat], a.action_type, a.amount)
             THEN NextSeat(coordinator)
             ELSE [coordinator EXCEPT !.pc = "auto_fold"]
    /\ UNCHANGED action_log

\* The except of that try: the seat is folded.
AutoFold ==
    /\ coordinator.pc = "auto_fold"
    /\ ApplyAction(CurrentSeat, "fold", << >>)
    /\ coordinator' =
          IF validate_action(betting, players[CurrentSeat], "fold", << >>)
          THEN NextSeat(coordinator)
          ELSE [coordinator EXCEPT !.pc = "crashed"]
    /\ UNCHANGED action_log

\* _run_betting_round has returned to _run_hand.
RoundReturned ==
    /\ coordinator.pc = "round_end"
    /\ UNCHANGED action_log
    /\ IF _hand_is_over(players)
       THEN /\ AwardPotToLastPlayer
            /\ coordinator' =
                  [coordinator EXCEPT
                      !.pc = IF Cardinality(ActiveSeats(players)) = 1
                             THEN "end_hand" ELSE "crashed"]
       ELSE IF phase = "river"
       THEN /\ RunShowdown
            /\ coordinator' = [coordinator EXCEPT !.pc = "finish"]
       ELSE /\ AdvancePhase
            /\ coordinator' =
                  [coordinator EXCEPT
                      !.pc = "seat", !.next = 1,
                      !.order = get_postflop_order(dealer_position, players')]

\* _finish_hand after the showdown, up to its await of save_hand.
FinishHand ==
    /\ coordinator.pc = "finish"
    /\ UNCHANGED action_log
    /\ IF _hand_is_over(players)
       THEN /\ AwardPotToLastPlayer
            /\ coordinator' =
                  [coordinator EXCEPT
                      !.pc = IF Cardinality(ActiveSeats(players)) = 1
                             THEN "end_hand" ELSE "crashed"]
       ELSE /\ coordinator' = [coordinator EXCEPT !.pc = "end_hand"]
            /\ UNCHANGED EngineState

\* engine.end_hand in _finish_hand, and back to the while of run_game.
CoordinatorEndHand ==
    /\ coordinator.pc = "end_hand"
    /\ EndHand
    /\ UNCHANGED <<tournament, action_log>>
    /\ coordinator' = [coordinator EXCEPT !.pc = "hand_top"]

Pause ==
    /\ Suspended
    /\ coordinator' = pause(coordinator)
    /\ UNCHANGED EngineState

Resume ==
    /\ Suspended
    /\ coordinator' = resume(coordinator)
    /\ UNCHANGED EngineState

\* The WebSocket handler hands over a message of the player.
ReceivePlayerAction(msg) ==
    /\ Suspended
    /\ coordinator' =
          [receive_player_action(coordinator, msg) EXCEPT
              !.arrived = IF coordinator.pending_action = "pending"
                          THEN <<msg>> ELSE @,
              !.dropped = @ \/ coordinator.pending_action # "pending"]
    /\ UNCHANGED EngineState

\* The task of the timer runs to its end.
TimerRuns ==
    /\ Suspended
    /\ coordinator.timer = "running"
    /\ coordinator' = _run_timer(coordinator)
    /\ UNCHANGED EngineState

NextCoordinator ==
    \/ RunGame
    \/ BettingLoop
    \/ \E a \in Decisions : AIDecides(a)
    \/ HumanReturns
    \/ ApplyDecided
    \/ AutoFold
    \/ RoundReturned
    \/ FinishHand
    \/ CoordinatorEndHand
    \/ Pause
    \/ Resume
    \/ \E msg \in Decisions : ReceivePlayerAction(msg)
    \/ TimerRuns

SpecCoordinator ==
    InitCoordinator /\ [][NextCoordinator]_vars


\* ------------------------------------------------------------ properties
ActionableSeats ==
    {s \in Seats : Actionable(players[s])}

\* C1: after every completed engine operation of a hand, the players' chips
\* plus the amounts of all pots equal the chips on the table when the hand
\* started.
C1_ChipsPlusPotsConserved ==
    hand_steps # "none" => SumChips(players) + PotTotal(pot) = hand_start_total

\* C2: a hand played as start_hand, accepted actions and phase advances, one
\* payout (run_showdown or award_pot_to_last_player) and end_hand leaves the
\* sum of chips over all seats where it was before start_hand.
C2_HandConservesChips ==
    hand_steps = "ended" => SumChips(players) = hand_start_total

\* C3: every player's chip count is >= 0 in every reachable state.
C3_ChipsNonNegative ==
    \A s \in Seats : players[s].chips >= 0

\* C4: is_round_complete is true iff at most one actionable player remains,
\* or every actionable player has acted since the last raise and has
\* current_bet equal to the table's current bet.
C4_RoundComplete ==
    is_round_complete(betting, players)
        <=> \/ Cardinality(ActionableSeats) <= 1
            \/ \A s \in ActionableSeats :
                  /\ s \notin to_act
                  /\ players[s].current_bet = betting.current_bet

C4_Witness ==
    /\ phase \in BettingPhases
    /\ Cardinality(ActionableSeats) >= 2
    /\ betting.last_raiser # -1
    /\ is_round_complete(betting, players)

\* C5: get_valid_actions gives nothing to a folded, all-in or eliminated
\* player; any other player gets fold, check exactly when the table's bet minus
\* the player's bet is <= 0 and call otherwise, and raise exactly when the
\* player's chips exceed the amount needed to call.
C5_ValidActions ==
    \A s \in Seats :
        LET p == players[s]
            v == get_valid_actions(betting, p)
            to_call == betting.current_bet - p.current_bet
        IN  /\ v \subseteq ActionTypes
            /\ (p.is_folded \/ p.is_all_in \/ p.is_eliminated) => v = {}
            /\ ~(p.is_folded \/ p.is_all_in \/ p.is_eliminated) =>
                  /\ "fold" \in v
                  /\ "check" \in v <=> to_call <= 0
                  /\ "call" \in v <=> to_call > 0
                  /\ "raise" \in v <=> p.chips > to_call

C5_Witness ==
    /\ phase \in BettingPhases
    /\ \E s \in ActionableSeats :
          /\ players[s].chips > 0
          /\ players[s].chips = betting.current_bet - players[s].current_bet

\* The conditions under which the illegal-action error is documented.
IllegalAction(b, p, action_type, amount) ==
    \/ action_type \notin get_valid_actions(b, p)
    \/ /\ action_type = "raise"
       /\ \/ amount = << >>
          \/ /\ amount # << >>
             /\ \/ amount[1] > p.current_bet + p.chips
                \/ /\ amount[1] < b.current_bet + b.min_raise
                   /\ amount[1] # p.current_bet + p.chips

\* C6: an action is rejected exactly when its type is not among the seat's
\* valid actions, or it is a raise without amount, above the seat's maximum, or
\* below the legal minimum without being the seat's exact all-in; every other
\* action is accepted.
C6_IllegalActionError ==
    \A s \in Seats, action_type \in ActionTypes \cup {"post_blind"},
       amount \in RaiseAmounts :
        validate_action(betting, players[s], action_type, amount)
            <=> ~IllegalAction(betting, players[s], action_type, amount)

C6_Witness ==
    /\ phase \in BettingPhases
    /\ \E s \in ActionableSeats :
          /\ "raise" \in get_valid_actions(betting, players[s])
          /\ players[s].current_bet + players[s].chips
                 < betting.current_bet + betting.min_raise
          /\ players[s].current_bet + players[s].chips <= MaxRaise

\* C7: after every accepted raise, in any betting round, the table's current
\* bet is strictly greater than it was before the raise.
C7_RaiseIncreasesBet ==
    [][\A s \in Seats, amount \in RaiseAmounts :
          (/\ phase \in BettingPhases
           /\ validate_action(betting, players[s], "raise", amount)
           /\ ApplyAction(s, "raise", amount))
              => betting'.current_bet > betting.current_bet]_vars

\* C8: after a raise, while at least two actionable players remain, the round
\* is not complete until every actionable player other than the raiser has
\* taken another action after that raise.
C8_RaiseReopensAction ==
    (/\ betting.last_raiser # -1
     /\ Cardinality(ActionableSeats) >= 2
     /\ \E s \in ActionableSeats \ {betting.last_raiser} : s \in to_act)
        => ~is_round_complete(betting, players)

C8_Witness ==
    /\ phase \in BettingPhases
    /\ betting.last_raiser # -1
    /\ Cardinality(ActionableSeats) >= 2
    /\ \E s \in ActionableSeats \ {betting.last_raiser} : s \in to_act
    /\ \E s \in Seats \ {betting.last_raiser} : s \notin to_act

\* C9: calculate_side_pots leaves the sum of the amounts of all pots equal to
\* the running pot total, the sum of every seat's contribution.
C9_SplitPreservesTotal ==
    PotTotal(pot) = SumOver(pot.player_contributions, Seats)

\* The sorted distinct all-in levels of an all-in map.
AllInLevels(aia) ==
    SortedSeq({aia[s] : s \in DOMAIN aia})

\* The pot of the band (lo, hi] as the specification words it.
ClaimedBand(c, active, lo, hi) ==
    [amount |-> SumOver([s \in Seats |-> IF s \in active
                                         THEN Min(c[s], hi) - Min(c[s], lo)
                                         ELSE 0], Seats),
     eligible_players |-> {s \in active : Min(c[s], hi) > Min(c[s], lo)}]

\* One band per level and one above the highest level, empty bands left out.
ClaimedPots(c, aia, active) ==
    LET L == AllInLevels(aia)
        top == L[Len(L)] + SumOver(c, Seats)
        all == [k \in 1 .. (Len(L) + 1) |->
                   ClaimedBand(c, active,
                               IF k = 1 THEN 0 ELSE L[k - 1],
                               IF k <= Len(L) THEN L[k] ELSE top)]
        HasChips(q) == q.amount > 0
    IN  SelectSeq(all, HasChips)

EmptyPots ==
    << [amount |-> 0, eligible_players |-> {}] >>

InactiveTotal(c, active) ==
    SumOver([s \in Seats |-> IF s \in active THEN 0 ELSE c[s]], Seats)

\* The specification's example A=100, B=300, C=500 in units of 100.
ExampleContributions ==
    [s \in Seats |-> 2 * s + 1]

\* The split has run on an all-in map that is not empty.
SplitDone ==
    /\ phase = "showdown"
    /\ DOMAIN all_in_amounts # {}

\* C10 as stated: one pot per sorted distinct all-in level (plus one above the
\* highest level), each holding the active players' contributions clipped to
\* its band and nothing else.
C10_PotsPerLevel ==
    SplitDone =>
        LET claimed == ClaimedPots(pot.player_contributions, all_in_amounts,
                                   ActiveSeats(players))
        IN  pot.pots = IF claimed = << >> THEN EmptyPots ELSE claimed

\* C10: one pot per sorted distinct all-in level whose band holds chips of
\* active players (plus one above the highest level), each holding the active
\* players' contributions clipped to its band, the first pot holding in
\* addition the contributions of the seats that are not active; the eligible
\* players of a pot are the active players with a positive amount in its band;
\* when no band holds chips the result is one empty pot.
C10_PotsPerLevelAndFolded ==
    SplitDone =>
        LET c == pot.player_contributions
            active == ActiveSeats(players)
            claimed == ClaimedPots(c, all_in_amounts, active)
        IN  /\ pot.pots =
                  IF claimed = << >> THEN EmptyPots
                  ELSE [claimed EXCEPT ![1].amount = @ + InactiveTotal(c, active)]
            /\ (/\ c = ExampleContributions
                /\ active = Seats
                /\ all_in_amounts = [s \in {0, 1} |-> c[s]])
                  => pot.pots = << [amount |-> 3, eligible_players |-> {0, 1, 2}],
                                   [amount |-> 4, eligible_players |-> {1, 2}],
                                   [amount |-> 2, eligible_players |-> {2}] >>

C10_Witness ==
    /\ phase = "showdown"
    /\ ActiveSeats(players) = Seats
    /\ all_in_amounts = [s \in {0, 1} |-> ExampleContributions[s]]
    /\ pot.player_contributions = ExampleContributions
    /\ Len(pot.pots) = 3

\* C11: whenever advance_phase, run_showdown or award_pot_to_last_player has
\* rebuilt or paid the pots, no pot's eligible_players holds a seat that is
\* folded or eliminated at that time.
C11_EligibleNeverFolded ==
    [][(AdvancePhase \/ RunShowdown \/ AwardPotToLastPlayer)
          => \A i \in 1 .. Len(pot'.pots) :
                \A s \in pot'.pots[i].eligible_players :
                    ~players'[s].is_folded /\ ~players'[s].is_eliminated]_vars

\* The position of seat s in the list w, 0 when it is not listed.
PositionIn(w, s) ==
    IF \E j \in 1 .. Len(w) : w[j] = s
    THEN CHOOSE j \in 1 .. Len(w) : w[j] = s
    ELSE 0

\* What the pot of amount a owes seat s when its winners are w: an even
\* share, and one chip more for the first (a mod k) winners.
ClaimedShare(a, w, s) ==
    LET k == Len(w)
        j == PositionIn(w, s)
    IN  IF j = 0 THEN 0
        ELSE (a \div k) + (IF j <= a % k THEN 1 ELSE 0)

\* C12: distribute pays each of the k >= 1 winners of a pot of amount a
\* floor(a / k), and one chip more to the first (a mod k) winners in the order
\* given; the payouts of such a pot sum to a, and when every pot has winners
\* the total paid is the total of all pots.
C12_DistributeShares ==
    (phase = "showdown" /\ showdown_result # << >>) =>
        LET d == showdown_result[1].pot_distributions
            paid == [s \in Seats |-> players[s].chips]
            won == {i \in 1 .. Len(d) : d[i].winners # << >>}
        IN  /\ \A s \in Seats :
                  paid[s] = SumOver([i \in 1 .. Len(d) |->
                                        ClaimedShare(d[i].pot_amount, d[i].winners, s)],
                                    won)
            /\ \A i \in won :
                  SumOver([s \in Seats |->
                              ClaimedShare(d[i].pot_amount, d[i].winners, s)], Seats)
                      = pot.pots[i].amount
            /\ won = 1 .. Len(pot.pots) => SumOver(paid, Seats) = PotTotal(pot)

C12_Witness ==
    /\ phase = "showdown"
    /\ showdown_result # << >>
    /\ Len(showdown_result[1].pot_distributions) = 2
    /\ showdown_result[1].pot_distributions[1].winners = <<2, 0>>
    /\ pot.pots[1].amount = 5
    /\ showdown_result[1].pot_distributions[2].winners = <<1, 2, 0>>
    /\ pot.pots[2].amount = 4
    /\ players[2].chips = 4 /\ players[0].chips = 3 /\ players[1].chips = 2

\* The seats that run_showdown lists as winners of its i-th pot.
PotWinnerSet(r, i) ==
    {r.pot_distributions[i].winners[j] :
        j \in 1 .. Len(r.pot_distributions[i].winners)}

\* C13: run_showdown awards each pot that holds chips only to seats that are
\* among the pot's eligible players, neither folded nor eliminated, and hold
\* the best hand rank among the pot's eligible seats in the showdown.
C13_PotsGoToEligibleBest ==
    [][(RunShowdown /\ payouts' = payouts + 1) =>
          LET r == showdown_result'[1]
              hands == DOMAIN r.hand_results
          IN  \A i \in 1 .. Len(r.pot_distributions) :
                 r.pot_distributions[i].pot_amount > 0 =>
                    \A s \in PotWinnerSet(r, i) :
                       /\ s \in pot'.pots[i].eligible_players
                       /\ ~players'[s].is_folded
                       /\ ~players'[s].is_eliminated
                       /\ \A t \in hands \cap pot'.pots[i].eligible_players :
                             r.hand_results[s] <= r.hand_results[t]]_vars

\* C14: get_min_raise_to is the table's current bet plus the minimum raise
\* increment; the increment starts a round at the value given to new_round
\* (the big blind when start_hand opens the round, 0 when advance_phase does),
\* an accepted raise replaces it by the size of the raise (new table bet minus
\* previous table bet) only if that size exceeds it, and within a round it
\* never decreases.
C14_MinRaiseIncrement ==
    [][/\ \A s \in Seats :
             get_min_raise_to(betting', players'[s])
                 = betting'.current_bet + betting'.min_raise
       /\ IF hand_number' # hand_number
          THEN betting'.min_raise = big_blind(blinds)
          ELSE IF phase' # phase /\ phase' \in {"flop", "turn", "river"}
          THEN betting'.min_raise = 0
          ELSE LET size == betting'.current_bet - betting.current_bet
               IN  /\ betting'.min_raise =
                         IF size > betting.min_raise THEN size
                         ELSE betting.min_raise
                   /\ betting'.min_raise >= betting.min_raise]_vars

C14_Witness ==
    /\ phase = "pre_flop"
    /\ betting.last_raiser # -1
    /\ players[betting.last_raiser].is_all_in
    /\ betting.current_bet = big_blind(blinds) + 1
    /\ betting.min_raise = big_blind(blinds)

\* How many seats clockwise seat s is from seat from_seat (NumSeats for
\* from_seat itself).
ClockwiseDistance(from_seat, s) ==
    ((s - from_seat + NumSeats - 1) % NumSeats) + 1

\* The first seat of S clockwise after from_seat.
FirstClockwise(from_seat, S) ==
    CHOOSE s \in S : \A t \in S :
        ClockwiseDistance(from_seat, s) <= ClockwiseDistance(from_seat, t)

\* C15: with exactly two non-eliminated seats the dealer is the small blind
\* and the other one the big blind; with three or more the small blind is the
\* next non-eliminated seat after the dealer and the big blind the next after
\* the small blind; the two seats are always distinct and never eliminated.
C15_BlindPositions ==
    phase = "pre_flop" =>
        LET active == {s \in Seats : ~players[s].is_eliminated}
            pos == get_blind_positions(dealer_position, players)
        IN  /\ Cardinality(active) = 2 =>
                  /\ pos[1] = dealer_position
                  /\ pos[2] \in active \ {dealer_position}
            /\ Cardinality(active) >= 3 =>
                  /\ pos[1] = FirstClockwise(dealer_position, active)
                  /\ pos[2] = FirstClockwise(pos[1], active)
            /\ pos[1] # pos[2]
            /\ pos[1] \in active
            /\ pos[2] \in active

\* The seats of a list.
SeatsOf(order) ==
    {order[i] : i \in 1 .. Len(order)}

\* The list holds exactly the seats of S, each once, clockwise from the seat
\* after from_seat (from_seat itself, if listed, is last).
ClockwiseListOf(order, S, from_seat) ==
    /\ SeatsOf(order) = S
    /\ Len(order) = Cardinality(S)
    /\ \A i, j \in 1 .. Len(order) :
          i < j => ClockwiseDistance(from_seat, order[i])
                       < ClockwiseDistance(from_seat, order[j])

\* C16: get_preflop_order and get_postflop_order list every actionable seat
\* exactly once and no other seat, clockwise: pre-flop from the seat left of
\* the big blind, the big blind last; post-flop from the seat left of the
\* dealer, the dealer last.
C16_TurnOrders ==
    LET actionable == {s \in Seats : ~players[s].is_folded /\ ~players[s].is_all_in
                                        /\ ~players[s].is_eliminated}
    IN  /\ \A bb_seat \in Seats :
              ClockwiseListOf(get_preflop_order(players, bb_seat), actionable, bb_seat)
        /\ ClockwiseListOf(get_postflop_order(dealer_position, players),
                           actionable, dealer_position)

C16_Witness ==
    /\ hand_number > 0
    /\ ~players[dealer_position].is_folded
    /\ players[(dealer_position + 1) % NumSeats].is_folded
    /\ get_postflop_order(dealer_position, players)
           = <<(dealer_position + 2) % NumSeats, dealer_position>>
    /\ get_preflop_order(players, (dealer_position + 2) % NumSeats)
           = <<dealer_position, (dealer_position + 2) % NumSeats>>

\* C17: advance_dealer moves the button to the first non-eliminated seat
\* clockwise after its position, back to the same seat if that is the only one
\* left, and leaves it where it is when every seat is eliminated.
C17_AdvanceDealer ==
    [][hand_number' # hand_number =>
          LET active == {s \in Seats : ~players[s].is_eliminated}
          IN  IF active = {} THEN dealer_position' = dealer_position
              ELSE /\ dealer_position' \in active
                   /\ \A s \in active :
                         ClockwiseDistance(dealer_position, dealer_position')
                             <= ClockwiseDistance(dealer_position, s)]_vars

C17_Witness ==
    /\ hand_number = 2
    /\ ~players[dealer_position].is_eliminated
    /\ players[(dealer_position + 1) % NumSeats].is_eliminated
    /\ ~players[(dealer_position + 2) % NumSeats].is_eliminated

\* C18: after n calls of advance_hand on a fresh manager the level index is
\* min(floor(n / hands_per_level), last level index); a call returns true
\* exactly when it raised the level; the level never decreases and never
\* passes the last level of the schedule.
C18_AdvanceHand ==
    [][hand_number' = hand_number + 1 =>
          LET last == Len(blinds.levels) - 1
              n == hand_number'
          IN  /\ blinds'.current_level = Min(n \div blinds.hands_per_level, last)
              /\ advance_hand_increased(blinds)
                    <=> blinds'.current_level > blinds.current_level
              /\ blinds'.current_level >= blinds.current_level
              /\ blinds'.current_level <= last]_vars

C18_Witness ==
    /\ blinds.hands_per_level = 3
    /\ Len(blinds.levels) = 3
    /\ hand_number = 7
    /\ blinds.current_level = 2
    /\ blinds.hands_at_current_level = 1

\* The blind seat holds chips, but fewer than the blind it owes, and after
\* start_hand it has posted them all: the posting returned for it is its
\* stack, it has 0 chips left and it is marked all-in.
ShortBlindPosted(seat, blind, postings) ==
    (0 < players[seat].chips /\ players[seat].chips < blind) =>
        /\ \E i \in 1 .. Len(postings) :
              postings[i] = <<seat, Min(blind, players[seat].chips)>>
        /\ players'[seat].chips = 0
        /\ players'[seat].is_all_in

\* C19: a blind seat whose stack is smaller than the scheduled blind posts
\* min(blind, stack), which is its stack: get_blind_posting returns that
\* amount, and after start_hand the seat has 0 chips and is all-in, and the
\* pot holds exactly what was posted.
C19_ShortStackBlind ==
    [][hand_number' # hand_number =>
          LET pos == get_blind_positions(dealer_position', players)
              postings == get_blind_posting(blinds, pos[1], pos[2],
                                            players[pos[1]].chips,
                                            players[pos[2]].chips)
          IN  /\ ShortBlindPosted(pos[1], small_blind(blinds), postings)
              /\ ShortBlindPosted(pos[2], big_blind(blinds), postings)
              /\ PotTotal(pot') = SumChips(players) - SumChips(players')]_vars

\* The cards held by the seats of S.
CardsHeld(ps, S) ==
    UNION {{ps[s].hole_cards[i] : i \in 1 .. Len(ps[s].hole_cards)} : s \in S}

\* C20: start_hand on a table with two or more non-eliminated seats, each
\* holding at least the big blind, takes the small blind from exactly one
\* seat and the big blind from exactly one other seat and leaves every other
\* stack alone; the pot holds small blind plus big blind, every non-eliminated
\* seat holds 2 hole cards, all of them different cards, no community card is
\* out and the phase is pre_flop.
C20_StartHand ==
    [][(/\ hand_number' # hand_number
        /\ Cardinality(_get_active_seats(players)) >= 2
        /\ \A s \in _get_active_seats(players) : players[s].chips >= big_blind(blinds))
       =>
          LET paid(s) == players[s].chips - players'[s].chips
              sb_payers == {s \in Seats : paid(s) = small_blind(blinds)}
              bb_payers == {s \in Seats : paid(s) = big_blind(blinds)}
              active == _get_active_seats(players')
          IN  /\ Cardinality(sb_payers) = 1
              /\ Cardinality(bb_payers) = 1
              /\ sb_payers # bb_payers
              /\ \A s \in Seats \ (sb_payers \cup bb_payers) : paid(s) = 0
              /\ PotTotal(pot') = small_blind(blinds) + big_blind(blinds)
              /\ \A s \in active : Len(players'[s].hole_cards) = 2
              /\ Cardinality(CardsHeld(players', active)) = 2 * Cardinality(active)
              /\ community_cards' = 0
              /\ phase' = "pre_flop"]_vars

\* The second hand has just started heads-up at blinds 2/4, both seats
\* having covered the big blind: the pot holds 6 and the four hole cards are
\* different.
C20_Witness ==
    /\ phase = "pre_flop"
    /\ hand_number = 2
    /\ hand_steps = "betting"
    /\ Cardinality(ActiveSeats(players)) = 2
    /\ \A s \in ActiveSeats(players) :
          /\ ~players[s].has_acted
          /\ players[s].chips + players[s].current_bet >= big_blind(blinds)
          /\ Len(players[s].hole_cards) = 2
    /\ betting.current_bet = big_blind(blinds)
    /\ big_blind(blinds) = 4
    /\ PotTotal(pot) = 6
    /\ Cardinality(CardsHeld(players, ActiveSeats(players))) = 4

\* The moves of the phase the lifecycle names: one step along the chain
\* pre_flop, flop, turn, river, showdown, between_hands; a shortcut to
\* showdown or to between_hands; and between_hands to pre_flop.
PhaseMove(from_phase, to_phase) ==
    \/ to_phase = NextPhase(from_phase)
    \/ to_phase = "showdown"
    \/ to_phase = "between_hands"
    \/ from_phase = "between_hands" /\ to_phase = "pre_flop"

\* The board holds 0, 3, 4, 5 cards in pre_flop, flop, turn, river and never
\* more than 5.
BoardMatchesPhase ==
    /\ phase = "pre_flop" => community_cards = 0
    /\ phase = "flop" => community_cards = 3
    /\ phase = "turn" => community_cards = 4
    /\ phase = "river" => community_cards = 5
    /\ community_cards <= 5

\* C21: the phase only changes by a move of the lifecycle (pre_flop is
\* entered from between_hands only), and the number of community cards is
\* the one of the phase.
C21_PhaseOrder ==
    [][(phase' # phase => PhaseMove(phase, phase')) /\ BoardMatchesPhase']_vars

\* The players still in the hand: not folded and not eliminated.
RemainingPlayers ==
    {s \in Seats : ~players[s].is_folded /\ ~players[s].is_eliminated}

\* C22: award_pot_to_last_player raises its error and changes no chips, no
\* pot and not the phase unless exactly one player is neither folded nor
\* eliminated; otherwise it returns, that player's chips grow by the total of
\* all pots, nobody else's chips change and the phase is between_hands.
C22_AwardPotToLastPlayer ==
    [][AwardPotToLastPlayer =>
          IF Cardinality(RemainingPlayers) # 1
          THEN /\ error' = "ValueError"
               /\ \A s \in Seats : players'[s].chips = players[s].chips
               /\ pot' = pot
               /\ phase' = phase
          ELSE /\ error' = "none"
               /\ \A s \in Seats :
                     players'[s].chips =
                        players[s].chips
                          + (IF s \in RemainingPlayers THEN PotTotal(pot) ELSE 0)
               /\ phase' = "between_hands"]_vars

\* award_pot_to_last_player was called during the betting with two players
\* still in the hand and chips in the pot, and raised its error.
C22_Witness ==
    /\ error = "ValueError"
    /\ phase \in BettingPhases
    /\ Cardinality(RemainingPlayers) = 2
    /\ PotTotal(pot) > 0

\* C23: run_showdown, called while no non-folded, non-eliminated player
\* holds hole cards, raises the structural precondition error.
C23_ShowdownWithoutHands ==
    [][(PlayersHands(players) = {} /\ RunShowdown) => error' = "ValueError"]_vars

\* The seats a state lists in a turn order of its own.
SeatsInTurnOrders(ps, dealer) ==
    SeatsOf(get_preflop_order(ps, get_blind_positions(dealer, ps)[2]))
        \cup SeatsOf(get_postflop_order(dealer, ps))

\* The seats a showdown result names as winners, overall or of a pot.
ShowdownWinners(r) ==
    SeatsOf(r.winners)
        \cup UNION {SeatsOf(r.pot_distributions[i].winners) :
                        i \in 1 .. Len(r.pot_distributions)}

\* C24: end_hand (the one call that advances the blind schedule) eliminates
\* exactly the seats with 0 chips that were not eliminated yet; and an
\* eliminated seat stays eliminated with 0 chips through every later call,
\* is dealt no hole cards, posts no blind, is in no turn order and is no
\* winner of a showdown.
C24_Elimination ==
    [][/\ blinds' # blinds =>
             \A s \in Seats :
                 players'[s].is_eliminated
                     <=> (players[s].is_eliminated \/ players[s].chips = 0)
       /\ \A s \in Seats :
             players[s].is_eliminated =>
                 /\ players'[s].is_eliminated
                 /\ players[s].chips = 0
                 /\ players'[s].chips = 0
                 /\ players'[s].hole_cards = players[s].hole_cards
                 /\ hand_number' # hand_number => pot'.player_contributions[s] = 0
                 /\ s \notin SeatsInTurnOrders(players', dealer_position')
                 /\ (showdown_result' # showdown_result /\ showdown_result' # << >>)
                        => s \notin ShowdownWinners(showdown_result'[1])]_vars

\* The second hand is being played, one seat was eliminated after the first
\* and another seat has just won a showdown of the second.
C24_Witness ==
    /\ hand_number = 2
    /\ phase = "showdown"
    /\ ~stray
    /\ showdown_result # << >>
    /\ \E s \in Seats :
          /\ players[s].is_eliminated
          /\ players[s].hole_cards # << >>
          /\ ~players[s].is_folded
          /\ s \notin ShowdownWinners(showdown_result[1])

\* The players that are not eliminated.
NotEliminated ==
    {s \in Seats : ~players[s].is_eliminated}

\* Two or more seats sat down with chips, and the last hand was played
\* through and ended, with every call in its place.
HandsPlayedAtFundedTable ==
    /\ Cardinality({s \in Seats : starting_chips[s] > 0}) >= 2
    /\ hand_steps = "ended"
    /\ ~stray

\* C25: is_tournament_over is true exactly when at most one player is not
\* eliminated; get_winner returns nothing while two or more are left; and
\* when the tournament is over after hands played at a table of two or more
\* funded seats, get_winner returns the one player not eliminated, who holds
\* all the chips the seats sat down with.
C25_TournamentOver ==
    /\ is_tournament_over(players) <=> Cardinality(NotEliminated) <= 1
    /\ Cardinality(NotEliminated) >= 2 => get_winner(players) = << >>
    /\ (is_tournament_over(players) /\ HandsPlayedAtFundedTable) =>
          /\ Len(get_winner(players)) = 1
          /\ NotEliminated = {get_winner(players)[1]}
          /\ players[get_winner(players)[1]].chips
                = SumOver(starting_chips, Seats)

\* Two hands were played at a table of three funded seats, the second has
\* just ended, and one player is left, holding all the chips.
C25_Witness ==
    /\ HandsPlayedAtFundedTable
    /\ \A s \in Seats : starting_chips[s] > 0
    /\ hand_number = 2
    /\ is_tournament_over(players)
    /\ Len(get_winner(players)) = 1
    /\ players[get_winner(players)[1]].chips = SumOver(starting_chips, Seats)

DeckIntact(d, handed) ==
    /\ \A i, j \in 1 .. Len(handed) : handed[i] = handed[j] => i = j
    /\ d.dealt_count + remaining(d) = 52
    /\ remaining(d) >= 0
    /\ d.dealt_count >= 0

\* What deal(count) on the deck d of engine i must do.
DealtAsAsked(i, count) ==
    LET d == decks[i] IN
    IF count < 1 \/ count > 52 - d.dealt_count
    THEN /\ error' = "ValueError"
         /\ decks'[i] = d
         /\ dealt'[i] = dealt[i]
    ELSE /\ error' = "none"
         /\ decks'[i] = [d EXCEPT !.dealt_count = @ + count]
         /\ dealt'[i] = dealt[i] \o
                [k \in 1 .. count |-> d.cards[d.dealt_count + k]]

\* C27: deal(n), deal_one() and burn() hand out the next n (or 1) cards not
\* dealt yet and move the cursor on by as many, or raise the capacity error
\* and leave the deck as it was when n < 1 or n is more than remains; no card
\* is handed out twice between two resets and dealt plus remaining is 52.
C27_DeckDeal ==
    [][/\ \A i \in Engines :
             /\ \A count \in DealCounts : DeckDeal(count) => DealtAsAsked(i, count)
             /\ (DeckDealOne \/ DeckBurn) => DealtAsAsked(i, 1)
             /\ DeckIntact(decks'[i], dealt'[i])]_vars

\* A shuffled deck has handed out all its cards and a further card was asked
\* for in vain.
C27_Witness ==
    /\ error = "ValueError"
    /\ decks[1].dealt_count = 52
    /\ Len(dealt[1]) = 52
    /\ decks[1].cards # OrderedCards

\* The seats that went all-in during the hand about to be ended: start_hand
\* cleared the flag of every seat it dealt in, and only those seats played.
WentAllInThisHand ==
    {s \in Seats : players[s].is_all_in /\ ~players[s].is_eliminated}

\* C29: every end_hand of the tournament (the one call that advances the
\* blind schedule) adds to total_all_ins exactly the number of seats that
\* went all-in during the hand just played.
C29_AllInCount ==
    [][blinds' # blinds =>
          tournament'.total_all_ins
              = tournament.total_all_ins + Cardinality(WentAllInThisHand)]_vars

\* A standings list names every seat exactly once, at the positions 1..N in
\* this order.
EverySeatOnce(standings) ==
    /\ Len(standings) = Cardinality(Seats)
    /\ {standings[i].seat_index : i \in 1 .. Len(standings)} = Seats
    /\ \A i \in 1 .. Len(standings) : standings[i].finish_position = i

\* The seats of standings from position first on are the eliminated seats,
\* from the last recorded to the first recorded.
EliminatedReversed(standings, first) ==
    LET order == tournament.elimination_order
    IN  /\ Len(standings) = first - 1 + Len(order)
        /\ \A i \in 1 .. Len(order) :
              standings[first - 1 + i].seat_index = order[Len(order) + 1 - i]

\* The result of a completed tournament: the winner, then the eliminated.
ResultStandings ==
    (tournament.result # << >> /\ ~stray) =>
        LET standings == tournament.result[1]
        IN  /\ EverySeatOnce(standings)
            /\ ~players[standings[1].seat_index].is_eliminated
            /\ EliminatedReversed(standings, 2)

\* What get_standings returns now: the seats still in by chips descending,
\* then the eliminated.
CurrentStandings ==
    LET standings == get_standings(players, tournament.elimination_order)
        active == Cardinality({s \in Seats : ~players[s].is_eliminated})
    IN  /\ EverySeatOnce(standings)
        /\ \A i \in 1 .. active : ~players[standings[i].seat_index].is_eliminated
        /\ \A i, j \in 1 .. active :
              i < j => players[standings[i].seat_index].chips
                          >= players[standings[j].seat_index].chips
        /\ EliminatedReversed(standings, active + 1)

\* The elimination order is the order in which seats are eliminated: a step
\* that eliminates seats records them behind the seats eliminated before.
EliminationRecorded ==
    LET out == {s \in Seats : players'[s].is_eliminated /\ ~players[s].is_eliminated}
        before == tournament.elimination_order
        after == tournament'.elimination_order
    IN  /\ Len(after) = Len(before) + Cardinality(out)
        /\ \A i \in 1 .. Len(before) : after[i] = before[i]
        /\ {after[i] : i \in Len(before) + 1 .. Len(after)} = out

\* C28: the result of a completed tournament lists every seat exactly once
\* at the finish positions 1..N, the winner first and then the eliminated
\* from the last out to the first out; get_standings lists, at any time,
\* every seat once, the seats still in by chips descending and then the
\* eliminated from the last out to the first out.
C28_Standings ==
    [](ResultStandings /\ CurrentStandings) /\ [][EliminationRecorded]_vars

\* A tournament of three funded seats was played in order to its end in two
\* hands, and the seat recorded last finished second.
C28_Witness ==
    /\ tournament.result # << >>
    /\ ~stray
    /\ \A s \in Seats : starting_chips[s] > 0
    /\ Len(tournament.elimination_order) = 2
    /\ hand_number = 2
    /\ ResultStandings
    /\ tournament.result[1][2].seat_index = tournament.elimination_order[2]

\* The seats whose hole cards determine_winners was given.
SuppliedSeats ==
    {evaluation.players_hole_cards[i] :
        i \in 1 .. Len(evaluation.players_hole_cards)}

\* C30: what determine_winners returns: the results hold one hand result
\* for every supplied seat, with the seat's score, in non-decreasing order
\* of score; the winners are, each once, exactly the supplied seats whose
\* score is the lowest of the supplied seats, so seats of equal strength
\* win together; for an empty input both lists are empty.
C30_DetermineWinners ==
    evaluation.returned # << >> =>
        LET winners == evaluation.returned[1].winners
            results == evaluation.returned[1].results
            hand_rank == evaluation.hand_rank
        IN  /\ Len(results) = Cardinality(SuppliedSeats)
            /\ {results[i].player_index : i \in 1 .. Len(results)} = SuppliedSeats
            /\ \A i \in 1 .. Len(results) :
                  results[i].hand_rank = hand_rank[results[i].player_index]
            /\ \A i, j \in 1 .. Len(results) :
                  i < j => results[i].hand_rank <= results[j].hand_rank
            /\ SeatsOf(winners)
                  = {s \in SuppliedSeats :
                        \A t \in SuppliedSeats : hand_rank[s] <= hand_rank[t]}
            /\ Len(winners) = Cardinality(SeatsOf(winners))
            /\ SuppliedSeats = {} => winners = << >> /\ results = << >>

\* determine_winners returned for three seats, put into the dict out of
\* seat order, of which two share the best score and both win.
C30_Witness ==
    /\ evaluation.returned # << >>
    /\ Len(evaluation.players_hole_cards) = 3
    /\ evaluation.players_hole_cards[1] > evaluation.players_hole_cards[2]
    /\ Len(evaluation.returned[1].winners) = 2
    /\ evaluation.returned[1].results[3].hand_rank
          > evaluation.returned[1].results[1].hand_rank

\* The seats the step records in the all-in map: those it adds to the map,
\* and all of the map start_hand builds anew.
NewlyAllIn ==
    {s \in DOMAIN all_in_amounts' :
        s \notin DOMAIN all_in_amounts \/ hand_number' # hand_number}

\* C31: the amount recorded for a seat when it first becomes all-in is the
\* seat's total contribution to the pot in the current hand.
C31_AllInAmountIsTotal ==
    [][\A s \in NewlyAllIn :
          all_in_amounts'[s] = pot'.player_contributions[s]]_vars

\* What a seat with total hand contribution T can win: from every seat's
\* contribution the part up to T.
MatchedUpTo(contributions, T) ==
    SumOver([t \in Seats |-> Min(contributions[t], T)], Seats)

C34_CompleteMeansMatched ==
    (/\ phase \in BettingPhases
     /\ count_active_players(players) >= 2
     /\ is_round_complete(betting, players))
        => \A s \in ActionableSeats :
              players[s].current_bet >= betting.current_bet

\* C35: a betting round terminates: while the players keep taking accepted
\* actions, an open round always becomes complete.
C35_RoundTerminates ==
    (phase \in BettingPhases) ~> is_round_complete(betting, players)

\* C36: the pots of a hand are paid out at most once: once run_showdown or
\* award_pot_to_last_player has credited the winners, a further payout by
\* either of them in the same hand changes no player's chips.
C36_PaidOnce ==
    [][(payouts >= 1 /\ payouts' > payouts) =>
          \A s \in Seats : players'[s].chips = players[s].chips]_vars

\* C37: an apply_action rejected with the illegal-action error changes
\* nothing: the players, the betting manager's current bet, minimum raise,
\* last raiser and acted set, the pots and contributions, the all-in map
\* and both action logs are as before the call.
C37_RejectedChangesNothing ==
    [][error' = "InvalidActionError" =>
          UNCHANGED <<players, betting, pot, all_in_amounts, action_log>>]_vars

\* An action was rejected in a hand in which actions had been logged and
\* chips had been bet.
C37_Witness ==
    /\ error = "InvalidActionError"
    /\ phase \in BettingPhases
    /\ action_log.actions_this_round >= 1
    /\ action_log.all_hand_actions >= 3
    /\ \E s \in Seats : players[s].has_acted /\ players[s].current_bet > 0

\* A step in which apply_action accepted an action and something came of
\* it: within a phase of a hand the betting manager changed, chips went
\* into the pot or a player folded.
ActionTookEffect ==
    /\ phase' = phase
    /\ hand_number' = hand_number
    /\ \/ betting' # betting
       \/ pot'.player_contributions # pot.player_contributions
       \/ \E s \in Seats : players'[s].is_folded # players[s].is_folded

\* C40: apply_action is accepted only in the phases pre_flop, flop, turn
\* and river: in showdown and between hands no action takes effect and no
\* chips move from a stack into the pot.
C40_ActionsOnlyWhileBetting ==
    [][ActionTookEffect => phase \in BettingPhases]_vars

\* C33: when _run_betting_round returns with at least two non-folded
\* players, every player who is neither folded nor all-in has a current_bet
\* equal to the current bet of the table.
C33_RoundReturnsMatched ==
    (coordinator.pc = "round_end" /\ count_active_players(players) >= 2)
        => \A s \in Seats :
              (~players[s].is_folded /\ ~players[s].is_eliminated
                    /\ ~players[s].is_all_in)
                 => players[s].current_bet = betting.current_bet

\* C39: while the coordinator is paused, no step applies an action to the
\* engine, advances the phase or starts a hand, whatever was pending or in
\* flight when pause() was called.
C39_PausedEngineAtRest ==
    [][coordinator.is_paused
          => UNCHANGED <<players, betting, pot, phase, hand_number,
                         community_cards>>]_vars

\* The action a timed-out turn gets: check where check is legal, else fold.
TimeoutDecision ==
    [action_type |->
        IF betting.current_bet - players[CurrentSeat].current_bet <= 0
        THEN "check" ELSE "fold",
     amount |-> << >>]

\* The turn of a human seat, from the creation of its future until its
\* action has been applied.
HumanTurn ==
    /\ coordinator.pc \in {"human", "apply", "auto_fold"}
    /\ CurrentSeat \in HumanSeats

\* A message that meets no pending future changes nothing.
MessageDropped ==
    (\E msg \in Decisions : ReceivePlayerAction(msg))
    /\ coordinator.pending_action # "pending"
        => /\ coordinator'.dropped
           /\ coordinator' = [coordinator EXCEPT !.dropped = TRUE]

\* C38: a human turn is resolved once, by the first message that arrives
\* while its future is pending or else by the timeout, which then gives
\* check where check is legal and fold otherwise; on_timeout is not called
\* once a message has arrived; a message that arrives after the timeout or
\* while no turn is pending changes nothing, so that the action applied in a
\* turn is the message that arrived in that same turn, or the timeout's.
C38_HumanTurnResolvedOnce ==
    /\ [](HumanTurn =>
            /\ ~(coordinator.arrived # << >> /\ coordinator.fired)
            /\ coordinator.pending_action = "done" =>
                  /\ (coordinator.arrived # << >>) # coordinator.fired
                  /\ coordinator.result = coordinator.arrived
            /\ coordinator.pc \in {"apply", "auto_fold"} =>
                  /\ (coordinator.arrived # << >>) # coordinator.fired
                  /\ coordinator.decided =
                        IF coordinator.fired THEN <<TimeoutDecision>>
                        ELSE coordinator.arrived)
    /\ [](~HumanTurn => coordinator.pending_action = "none"
                        /\ coordinator.timer = "none")
    /\ [][MessageDropped]_vars

\* A human turn that the timeout resolved is about to be given the timeout's
\* action, a message having been dropped since the turn before it.
C38_Witness ==
    /\ coordinator.pc = "apply"
    /\ CurrentSeat \in HumanSeats
    /\ coordinator.fired
    /\ coordinator.dropped
    /\ coordinator.decided = <<TimeoutDecision>>

====
